---- MODULE Spec2Model ----
(***************************************************************************)
(* A model of the reach/frequency calculator's calculation core:           *)
(* the basic conversions, the effective 3+ estimator, the sequential       *)
(* remainder combinedReach, computePlanSummary and the tactic resolver.    *)
(*                                                                         *)
(* The functions are pure, so a behaviour is one call: Init draws the      *)
(* operation and its arguments from bounded sets (pc = "call"), and the    *)
(* operation's action applies it and records what it returned or threw     *)
(* (pc = "done").                                                          *)
(*                                                                         *)
(* Numbers are exact rationals [n, d] in lowest terms with d > 0: the      *)
(* code's IEEE doubles are idealised to exact arithmetic.  null and        *)
(* undefined (which the code never tells apart: it tests != null) are the  *)
(* value Null.                                                             *)
(***************************************************************************)
EXTENDS Integers, Sequences, FiniteSets, TLC

VARIABLES pc, op, args, given, ret

vars == <<pc, op, args, given, ret>>

-----------------------------------------------------------------------------
(* Exact rational arithmetic.                                              *)

Null == [null |-> TRUE]

Abs(i) == IF i < 0 THEN -i ELSE i

RECURSIVE GCD(_, _)
GCD(a, b) == IF b = 0 THEN a ELSE GCD(b, a % b)

\* n/d in lowest terms, for d # 0.
Frac(n, d) ==
    LET s == IF d < 0 THEN -1 ELSE 1
        g == GCD(Abs(n), Abs(d))
    IN  [n |-> (s * n) \div g, d |-> (s * d) \div g]

R(i) == [n |-> i, d |-> 1]

RAdd(x, y) ==
    LET g == GCD(x.d, y.d)
    IN  Frac(x.n * (y.d \div g) + y.n * (x.d \div g), (x.d \div g) * y.d)
RNeg(x) == [n |-> -x.n, d |-> x.d]
RSub(x, y) == RAdd(x, RNeg(y))
RMul(x, y) ==
    LET a == Frac(x.n, y.d)
        b == Frac(y.n, x.d)
    IN  [n |-> a.n * b.n, d |-> a.d * b.d]
\* x / y for y # 0 (every division of the code is guarded against 0).
RDiv(x, y) == RMul(x, Frac(y.d, y.n))
RLt(x, y) == x.n * y.d < y.n * x.d
RLe(x, y) == x.n * y.d <= y.n * x.d
RGt(x, y) == RLt(y, x)
RGe(x, y) == RLe(y, x)
RMin(x, y) == IF RLe(x, y) THEN x ELSE y
RMax(x, y) == IF RGe(x, y) THEN x ELSE y
RAbs(x) == [n |-> Abs(x.n), d |-> x.d]
\* Math.round: the nearest integer, halves towards +infinity.
MathRound(x) == R((2 * x.n + x.d) \div (2 * x.d))

Zero == R(0)
Hundred == R(100)

\* What a call produced: a returned value or a thrown Error with its message.
Return(v) == [threw |-> FALSE, value |-> v]
Throw(msg) == [threw |-> TRUE, message |-> msg]
NoReturn == [pending |-> TRUE]

-----------------------------------------------------------------------------
(* Basic conversions.                                                      *)

grossImpressionsFromCostCPM(cost, cpm) ==
    IF RLe(cpm, Zero) THEN Throw("CPM must be greater than 0")
    ELSE IF RLt(cost, Zero) THEN Throw("Cost cannot be negative")
    ELSE Return(RMul(RDiv(cost, cpm), R(1000)))

grpsFromImpressions(grossImpressions, audienceSize) ==
    IF RLe(audienceSize, Zero) THEN Throw("Audience size must be greater than 0")
    ELSE IF RLt(grossImpressions, Zero)
    THEN Throw("Gross impressions cannot be negative")
    ELSE Return(RMul(RDiv(grossImpressions, audienceSize), Hundred))

grpsFromReachFrequency(reachPercent, frequency) ==
    IF RLt(reachPercent, Zero) \/ RGt(reachPercent, Hundred)
    THEN Throw("Reach% must be between 0 and 100")
    ELSE IF RLt(frequency, Zero) THEN Throw("Frequency cannot be negative")
    ELSE Return(RMul(reachPercent, frequency))

\* Average frequency over the reach as a fraction instead of a percentage.
averageFrequency_OverFraction(grps, reachPercent) ==
    IF RLe(reachPercent, Zero)
    THEN Throw("Reach% must be greater than 0 to compute frequency")
    ELSE IF RLt(grps, Zero) THEN Throw("GRPs cannot be negative")
    ELSE Return(RDiv(grps, RDiv(reachPercent, Hundred)))

averageFrequency(grps, reachPercent) ==
    IF RLe(reachPercent, Zero)
    THEN Throw("Reach% must be greater than 0 to compute frequency")
    ELSE IF RLt(grps, Zero) THEN Throw("GRPs cannot be negative")
    ELSE Return(RDiv(grps, reachPercent))

impressionsFromGRPs(grps, audienceSize) ==
    RMul(RDiv(grps, Hundred), audienceSize)

reachNumber(reachPercent, audienceSize) ==
    MathRound(RMul(RDiv(reachPercent, Hundred), audienceSize))

-----------------------------------------------------------------------------
(* Effective reach (Poisson approximation).                                *)

\* Terms of the series standing for Math.exp beyond the constant one.
ExpTerms == 4

RECURSIVE ExpSeries(_, _)
\* 1 + x/k * (1 + x/(k+1) * (... )) : the Taylor polynomial of e^x from term k.
ExpSeries(x, k) ==
    IF k > ExpTerms THEN R(1)
    ELSE RAdd(R(1), RMul(RDiv(x, R(k)), ExpSeries(x, k + 1)))

\* Math.exp(-x) is 0 from here on: e^-746 lies below half the smallest
\* double.
ExpUnderflow == 746

\* Math.exp(-x) for x >= 0 (the code only ever calls Math.exp on -lambda with
\* lambda >= 0): the reciprocal of the Taylor polynomial of e^x, which is 1 at
\* 0, strictly decreasing and in (0, 1] like e^-x, and 0 once the double
\* underflows.
MathExpNeg(x) ==
    IF RGe(x, R(ExpUnderflow)) THEN Zero
    ELSE RDiv(R(1), ExpSeries(x, 1))

\* The Poisson sum without P(1).
effectiveReach3Plus_DropsP1(grps) ==
    IF RLt(grps, Zero) THEN Throw("GRPs cannot be negative")
    ELSE
      LET lambda == RDiv(grps, Hundred)
          expNegLambda == MathExpNeg(lambda)
          p0 == expNegLambda
          p1 == RMul(lambda, expNegLambda)
          p2 == RMul(RDiv(RMul(lambda, lambda), R(2)), expNegLambda)
          p3plus == RSub(R(1), RAdd(p0, p2))
          clamped == RMax(Zero, RMin(R(1), p3plus))
      IN  Return([lambda |-> lambda, p0 |-> p0, p1 |-> p1, p2 |-> p2,
                  p3plus |-> clamped,
                  effective3PlusPercent |-> RMul(clamped, Hundred)])

effectiveReach3Plus(grps) ==
    IF RLt(grps, Zero) THEN Throw("GRPs cannot be negative")
    ELSE
      LET lambda == RDiv(grps, Hundred)
          expNegLambda == MathExpNeg(lambda)
          p0 == expNegLambda
          p1 == RMul(lambda, expNegLambda)
          p2 == RMul(RDiv(RMul(lambda, lambda), R(2)), expNegLambda)
          p3plus == RSub(R(1), RAdd(RAdd(p0, p1), p2))
          clamped == RMax(Zero, RMin(R(1), p3plus))
      IN  Return([lambda |-> lambda, p0 |-> p0, p1 |-> p1, p2 |-> p2,
                  p3plus |-> clamped,
                  effective3PlusPercent |-> RMul(clamped, Hundred)])

-----------------------------------------------------------------------------
(* Combined reach (sequential remainder method).                           *)

\* A validation that forgets the lower bound.
ReachOutOfRange_NoLowerBound(reachPercent) == RGt(reachPercent, Hundred)

ReachOutOfRange(reachPercent) ==
    RLt(reachPercent, Zero) \/ RGt(reachPercent, Hundred)

RECURSIVE FirstInvalid(_, _)
\* The validation loop: the index of the first tactic out of [0,100], or 0.
FirstInvalid(tactics, i) ==
    IF i > Len(tactics) THEN 0
    ELSE IF ReachOutOfRange(tactics[i].reachPercent) THEN i
    ELSE FirstInvalid(tactics, i + 1)

\* The comparator with its operands swapped: an ascending sort.
ComparatorPutsFirst_Ascending(a, b) == RLt(a.reachPercent, b.reachPercent)

\* The comparator (a, b) => b.reachPercent - a.reachPercent is negative, i.e.
\* a is ordered before b, when a's reach is the larger.
ComparatorPutsFirst(a, b) == RGt(a.reachPercent, b.reachPercent)

RECURSIVE InsertSorted(_, _)
\* t into an already sorted list, behind everything the comparator does not
\* put it before (Array.prototype.sort is stable).
InsertSorted(t, sorted) ==
    IF sorted = <<>> THEN <<t>>
    ELSE IF ComparatorPutsFirst(t, Head(sorted)) THEN <<t>> \o sorted
    ELSE <<Head(sorted)>> \o InsertSorted(t, Tail(sorted))

RECURSIVE SortedUpTo(_, _)
SortedUpTo(tactics, k) ==
    IF k = 0 THEN <<>>
    ELSE InsertSorted(tactics[k], SortedUpTo(tactics, k - 1))

\* [...tactics].sort(comparator): a sorted copy.
SortDescending(tactics) == SortedUpTo(tactics, Len(tactics))

\* The remainder with the subtraction the wrong way round.
StepRemainder_Flipped(runningTotal) == RSub(runningTotal, Hundred)

\* The remainder that forgets what is already reached.
StepRemainder_Whole(runningTotal) == Hundred

StepRemainder(runningTotal) == RSub(Hundred, runningTotal)

\* The incremental reach that ignores the remainder: plain addition.
StepIncremental_Additive(remainder, reachPercent) == reachPercent

StepIncremental(remainder, reachPercent) ==
    RMul(remainder, RDiv(reachPercent, Hundred))

FirstStep(tactic) ==
    [tacticName |-> tactic.tacticName, reachPercent |-> tactic.reachPercent,
     remainder |-> Hundred, incremental |-> tactic.reachPercent,
     runningTotal |-> tactic.reachPercent]

LaterStep(tactic, runningTotal) ==
    LET remainder == StepRemainder(runningTotal)
        incremental == StepIncremental(remainder, tactic.reachPercent)
    IN  [tacticName |-> tactic.tacticName, reachPercent |-> tactic.reachPercent,
         remainder |-> remainder, incremental |-> incremental,
         runningTotal |-> RAdd(runningTotal, incremental)]

RECURSIVE StepsUpTo(_, _)
\* The steps pushed by the first k iterations of the loop over sorted.
StepsUpTo(sorted, k) ==
    IF k = 0 THEN <<>>
    ELSE IF k = 1 THEN <<FirstStep(sorted[1])>>
    ELSE LET before == StepsUpTo(sorted, k - 1)
         IN  Append(before, LaterStep(sorted[k], before[k - 1].runningTotal))

ClampCombined(runningTotal) == RMin(Hundred, runningTotal)

\* combinedReach whose first step reads the caller's first tactic, tactics[0],
\* instead of sorted[0].
combinedReach_FirstFromInput(tactics) ==
    IF Len(tactics) = 0
    THEN Return([steps |-> <<>>, combinedReachPercent |-> Zero])
    ELSE IF FirstInvalid(tactics, 1) # 0
    THEN Throw(<<"Reach% must be between 0 and 100",
                 tactics[FirstInvalid(tactics, 1)].tacticName>>)
    ELSE LET sorted == SortDescending(tactics)
             mixed == <<tactics[1]>> \o Tail(sorted)
             steps == StepsUpTo(mixed, Len(mixed))
         IN  Return([steps |-> steps,
                     combinedReachPercent |->
                         ClampCombined(steps[Len(steps)].runningTotal)])

combinedReach(tactics) ==
    IF Len(tactics) = 0
    THEN Return([steps |-> <<>>, combinedReachPercent |-> Zero])
    ELSE IF FirstInvalid(tactics, 1) # 0
    THEN Throw(<<"Reach% must be between 0 and 100",
                 tactics[FirstInvalid(tactics, 1)].tacticName>>)
    ELSE LET sorted == SortDescending(tactics)
             steps == StepsUpTo(sorted, Len(sorted))
         IN  Return([steps |-> steps,
                     combinedReachPercent |->
                         ClampCombined(steps[Len(steps)].runningTotal)])

-----------------------------------------------------------------------------
(* Plan summary.                                                           *)

RECURSIVE SumGRPs(_, _)
\* tactics.reduce((sum, t) => sum + t.grps, 0) over the first k tactics.
SumGRPs(tactics, k) ==
    IF k = 0 THEN Zero
    ELSE RAdd(SumGRPs(tactics, k - 1), tactics[k].grps)

NameAndReach(tactics) ==
    [i \in 1..Len(tactics) |->
        [tacticName |-> tactics[i].tacticName,
         reachPercent |-> tactics[i].reachPercent]]

\* The average frequency as GRPs per 100, not per combined reach%.
PlanAvgFrequency_PerHundred(totalGRPs, combinedReachPercent) ==
    IF RGt(combinedReachPercent, Zero) THEN RDiv(totalGRPs, Hundred) ELSE Zero

PlanAvgFrequency(totalGRPs, combinedReachPercent) ==
    IF RGt(combinedReachPercent, Zero)
    THEN RDiv(totalGRPs, combinedReachPercent)
    ELSE Zero

computePlanSummary(tactics, audienceSize) ==
    LET totalGRPs == SumGRPs(tactics, Len(tactics))
        combined == combinedReach(NameAndReach(tactics))
    IN  IF combined.threw THEN combined
        ELSE
          LET combinedReachPercent == combined.value.combinedReachPercent
              combinedReachNum == reachNumber(combinedReachPercent, audienceSize)
              combinedAvgFrequency ==
                  PlanAvgFrequency(totalGRPs, combinedReachPercent)
              eff3Plus == effectiveReach3Plus(totalGRPs)
          IN  IF eff3Plus.threw THEN eff3Plus
              ELSE Return([totalGRPs |-> totalGRPs,
                           combinedReachPercent |-> combinedReachPercent,
                           combinedReachNumber |-> combinedReachNum,
                           combinedAvgFrequency |-> combinedAvgFrequency,
                           effective3Plus |-> eff3Plus.value,
                           combinedReachSteps |-> combined.value.steps])

-----------------------------------------------------------------------------
(* Reach curve.                                                            *)

estimateReachPercent(grps, k) ==
    IF RLt(grps, Zero) THEN Throw("GRPs cannot be negative")
    ELSE IF RLe(k, Zero) THEN Throw("k must be positive")
    ELSE Return(RMul(Hundred,
                     RSub(R(1), MathExpNeg(RDiv(RMul(k, grps), Hundred)))))

\* A curve for every channel.
getReachCurveK_AllChannels(channel) == R(1)

getReachCurveK(channel) == IF channel = "TV" THEN R(1) ELSE Null

-----------------------------------------------------------------------------
(* Tactic resolver.  The body of resolveTactic is a sequence of steps over *)
(* the function's locals: the result under construction, grps, grossImps,  *)
(* and where control is: still running, returned early, or thrown into the *)
(* catch clause with a message.  Messages are their text without the       *)
(* numbers that toFixed formats into them.                                 *)

ConflictWarning ==
    "GRPs derived from Reach x Frequency differ from other inputs. Using Reach x Frequency value."
ReachOnlyWarning ==
    "Only Reach% provided. Cannot compute Frequency, GRPs, or Effective 3+ Reach without additional inputs."
EstimatedWarning(channel) ==
    "Reach% was auto-estimated using a " \o channel \o " reach curve. This is an approximation."
UndeterminedWarning ==
    "GRPs computed but Reach% and Frequency cannot be individually determined without at least one of them being provided."
InsufficientError ==
    "Insufficient inputs to compute GRPs. Provide one of: GRPs, Gross Impressions, Cost+CPM, or Reach%+Frequency."
FrequencyError == "Frequency must be > 0 to derive Reach%."
ExceedsError == "Computed Reach% exceeds 100%. Check your inputs."

InitialResult(input) ==
    [tacticName |-> input.tacticName,
     geoName |-> input.geoName,
     audienceName |-> input.audienceName,
     audienceSize |-> input.audienceSize,
     channel |-> input.channel,
     grossImpressions |-> Null,
     grps |-> Null,
     reachPercent |-> Null,
     frequency |-> Null,
     reachNum |-> Null,
     effective3Plus |-> Null,
     inputCost |-> input.cost,
     inputCPM |-> input.cpm,
     derivationPath |-> <<>>,
     warnings |-> <<>>,
     errors |-> <<>>,
     isFullyResolved |-> FALSE,
     reachPercentEstimated |-> FALSE]

Locals(input) ==
    [result |-> InitialResult(input), grps |-> Null, grossImps |-> Null,
     ctl |-> "run", message |-> ""]

Thrown(s, msg) == [s EXCEPT !.ctl = "throw", !.message = msg]
Returned(s) == [s EXCEPT !.ctl = "return"]

\* Path C: Cost + CPM -> impressions -> GRPs.
PathC(s, input) ==
    IF s.ctl # "run" THEN s
    ELSE IF input.cost # Null /\ input.cpm # Null
    THEN LET gi == grossImpressionsFromCostCPM(input.cost, input.cpm)
         IN  IF gi.threw THEN Thrown(s, gi.message)
             ELSE LET g == grpsFromImpressions(gi.value, input.audienceSize)
                  IN  IF g.threw
                      THEN Thrown([s EXCEPT !.grossImps = gi.value], g.message)
                      ELSE [s EXCEPT !.grossImps = gi.value,
                                     !.grps = g.value,
                                     !.result.derivationPath =
                                         <<"Cost + CPM -> Impressions -> GRPs">>]
    ELSE s

\* Path B: Gross Impressions -> GRPs (overrides path C).
PathB(s, input) ==
    IF s.ctl # "run" THEN s
    ELSE IF input.grossImpressions # Null
    THEN LET g == grpsFromImpressions(input.grossImpressions, input.audienceSize)
         IN  IF g.threw
             THEN Thrown([s EXCEPT !.grossImps = input.grossImpressions], g.message)
             ELSE [s EXCEPT !.grossImps = input.grossImpressions,
                            !.grps = g.value,
                            !.result.derivationPath =
                                IF @ # <<>>
                                THEN <<"Gross Impressions -> GRPs (overrides Cost+CPM)">>
                                ELSE <<"Gross Impressions -> GRPs">>]
    ELSE s

\* The test !grossImps: true of null and of 0.
NotSet(grossImps) == grossImps = Null \/ grossImps = Zero

\* Path A: GRPs directly.
PathA(s, input) ==
    IF s.ctl # "run" THEN s
    ELSE IF input.grps # Null
    THEN [s EXCEPT !.grps = input.grps,
                   !.grossImps =
                       IF NotSet(@)
                       THEN impressionsFromGRPs(input.grps, input.audienceSize)
                       ELSE @,
                   !.result.derivationPath = <<"GRPs provided directly">>]
    ELSE s

\* The conflict test that compares without an epsilon.
GRPsConflict_NoEpsilon(grps, derivedGRPs) ==
    grps # Null /\ grps # derivedGRPs

\* The conflict test without Math.abs: grps - derivedGRPs > 0.01.
GRPsConflict_Signed(grps, derivedGRPs) ==
    grps # Null /\ RGt(RSub(grps, derivedGRPs), Frac(1, 100))

\* The conflict test Math.abs(grps - derivedGRPs) > 0.01.
GRPsConflict(grps, derivedGRPs) ==
    grps # Null /\ RGt(RAbs(RSub(grps, derivedGRPs)), Frac(1, 100))

\* Path D: Reach% + Frequency -> GRPs.
PathD(s, input) ==
    IF s.ctl # "run" THEN s
    ELSE IF input.reachPercent # Null /\ input.frequency # Null
    THEN LET d == grpsFromReachFrequency(input.reachPercent, input.frequency)
         IN  IF d.threw THEN Thrown(s, d.message)
             ELSE [s EXCEPT !.result.warnings =
                                IF GRPsConflict(s.grps, d.value)
                                THEN Append(@, ConflictWarning)
                                ELSE @,
                            !.grps = d.value,
                            !.grossImps =
                                impressionsFromGRPs(d.value, input.audienceSize),
                            !.result.derivationPath =
                                <<"Reach% + Frequency -> GRPs">>]
    ELSE s

\* Path E without its return: the reach-only result falls through to the
\* "no GRPs" error.
PathE_NoReturn(s, input) ==
    IF s.ctl # "run" THEN s
    ELSE IF input.reachPercent # Null /\ input.frequency = Null /\ s.grps = Null
    THEN [s EXCEPT
             !.result.reachPercent = input.reachPercent,
             !.result.reachNum = reachNumber(input.reachPercent, input.audienceSize),
             !.result.derivationPath =
                 <<"Reach% only (insufficient to compute GRPs/Frequency)">>,
             !.result.warnings = Append(@, ReachOnlyWarning),
             !.result.isFullyResolved = FALSE]
    ELSE s

\* Path E: Reach% only, returned at once.
PathE(s, input) ==
    IF s.ctl # "run" THEN s
    ELSE IF input.reachPercent # Null /\ input.frequency = Null /\ s.grps = Null
    THEN Returned([s EXCEPT
             !.result.reachPercent = input.reachPercent,
             !.result.reachNum = reachNumber(input.reachPercent, input.audienceSize),
             !.result.derivationPath =
                 <<"Reach% only (insufficient to compute GRPs/Frequency)">>,
             !.result.warnings = Append(@, ReachOnlyWarning),
             !.result.isFullyResolved = FALSE])
    ELSE s

\* The "no GRPs" return that records no error.
RequireGRPs_Silent(s, input) ==
    IF s.ctl # "run" THEN s
    ELSE IF s.grps = Null THEN Returned(s)
    ELSE s

\* Still no GRPs: an error, returned at once.
RequireGRPs(s, input) ==
    IF s.ctl # "run" THEN s
    ELSE IF s.grps = Null
    THEN Returned([s EXCEPT !.result.errors = Append(@, InsufficientError)])
    ELSE s

\* result.grps = grps; result.grossImpressions = grossImps.
AssignVolume(s, input) ==
    IF s.ctl # "run" THEN s
    ELSE [s EXCEPT !.result.grps = s.grps, !.result.grossImpressions = s.grossImps]

\* Step 2 whose frequency <= 0 branch records the error without returning.
DeriveReachFrequency_FrequencyFallsThrough(s, input) ==
    IF s.ctl # "run" THEN s
    ELSE IF input.reachPercent # Null
    THEN LET f == averageFrequency(s.grps, input.reachPercent)
             t == [s EXCEPT !.result.reachPercent = input.reachPercent]
         IN  IF f.threw THEN Thrown(t, f.message)
             ELSE [t EXCEPT !.result.frequency = f.value]
    ELSE IF input.frequency # Null
    THEN IF RGt(input.frequency, Zero)
         THEN [s EXCEPT !.result.reachPercent = RDiv(s.grps, input.frequency),
                        !.result.frequency = input.frequency]
         ELSE [s EXCEPT !.result.errors = Append(@, FrequencyError)]
    ELSE LET curveK == getReachCurveK(input.channel)
         IN  IF curveK # Null /\ RGt(s.grps, Zero)
             THEN LET estimated == estimateReachPercent(s.grps, curveK)
                  IN  IF estimated.threw THEN Thrown(s, estimated.message)
                      ELSE
                        LET t == [s EXCEPT !.result.reachPercent = estimated.value]
                            f == averageFrequency(s.grps, estimated.value)
                        IN  IF f.threw THEN Thrown(t, f.message)
                            ELSE [t EXCEPT
                                    !.result.frequency = f.value,
                                    !.result.reachPercentEstimated = TRUE,
                                    !.result.derivationPath =
                                        Append(@, "-> Reach% estimated via reach curve"),
                                    !.result.warnings =
                                        Append(@, EstimatedWarning(input.channel))]
             ELSE [s EXCEPT !.result.warnings = Append(@, UndeterminedWarning)]

\* Step 2: derive reach and frequency.
DeriveReachFrequency(s, input) ==
    IF s.ctl # "run" THEN s
    ELSE IF input.reachPercent # Null
    THEN LET f == averageFrequency(s.grps, input.reachPercent)
             t == [s EXCEPT !.result.reachPercent = input.reachPercent]
         IN  IF f.threw THEN Thrown(t, f.message)
             ELSE [t EXCEPT !.result.frequency = f.value]
    ELSE IF input.frequency # Null
    THEN IF RGt(input.frequency, Zero)
         THEN [s EXCEPT !.result.reachPercent = RDiv(s.grps, input.frequency),
                        !.result.frequency = input.frequency]
         ELSE Returned([s EXCEPT !.result.errors = Append(@, FrequencyError)])
    ELSE LET curveK == getReachCurveK(input.channel)
         IN  IF curveK # Null /\ RGt(s.grps, Zero)
             THEN LET estimated == estimateReachPercent(s.grps, curveK)
                  IN  IF estimated.threw THEN Thrown(s, estimated.message)
                      ELSE
                        LET t == [s EXCEPT !.result.reachPercent = estimated.value]
                            f == averageFrequency(s.grps, estimated.value)
                        IN  IF f.threw THEN Thrown(t, f.message)
                            ELSE [t EXCEPT
                                    !.result.frequency = f.value,
                                    !.result.reachPercentEstimated = TRUE,
                                    !.result.derivationPath =
                                        Append(@, "-> Reach% estimated via reach curve"),
                                    !.result.warnings =
                                        Append(@, EstimatedWarning(input.channel))]
             ELSE [s EXCEPT !.result.warnings = Append(@, UndeterminedWarning)]

\* The reach validation that records the error without returning.
ValidateReach_FallsThrough(s, input) ==
    IF s.ctl # "run" THEN s
    ELSE IF s.result.reachPercent # Null /\ RGt(s.result.reachPercent, Hundred)
    THEN [s EXCEPT !.result.errors = Append(@, ExceedsError)]
    ELSE s

\* Validate reach: above 100 is an error, returned at once.
ValidateReach(s, input) ==
    IF s.ctl # "run" THEN s
    ELSE IF s.result.reachPercent # Null /\ RGt(s.result.reachPercent, Hundred)
    THEN Returned([s EXCEPT !.result.errors = Append(@, ExceedsError)])
    ELSE s

\* Compute reach #.
ComputeReachNum(s, input) ==
    IF s.ctl # "run" THEN s
    ELSE IF s.result.reachPercent # Null
    THEN [s EXCEPT !.result.reachNum =
                       reachNumber(s.result.reachPercent, input.audienceSize)]
    ELSE s

\* Step 3 that calls a tactic fully resolved as soon as its GRPs are known.
Effective3Plus_ResolvedByGRPs(s, input) ==
    IF s.ctl # "run" THEN s
    ELSE LET e == effectiveReach3Plus(s.grps)
         IN  IF e.threw THEN Thrown(s, e.message)
             ELSE [s EXCEPT
                     !.result.effective3Plus = e.value,
                     !.result.isFullyResolved = s.result.grps # Null]

\* Step 3: effective 3+ reach, then isFullyResolved.
Effective3Plus(s, input) ==
    IF s.ctl # "run" THEN s
    ELSE LET e == effectiveReach3Plus(s.grps)
         IN  IF e.threw THEN Thrown(s, e.message)
             ELSE [s EXCEPT
                     !.result.effective3Plus = e.value,
                     !.result.isFullyResolved =
                         /\ s.result.grps # Null
                         /\ s.result.reachPercent # Null
                         /\ s.result.frequency # Null
                         /\ e.value # Null]

\* The locals after step 1 (paths C, B, A, D in this order).
AfterPathC(input) == PathC(Locals(input), input)
AfterPathB(input) == PathB(AfterPathC(input), input)
AfterPathA(input) == PathA(AfterPathB(input), input)
AfterPathD(input) == PathD(AfterPathA(input), input)

\* The try block run to its end, to a return or to a throw.
TryBlock(input) ==
    Effective3Plus(
      ComputeReachNum(
        ValidateReach(
          DeriveReachFrequency(
            AssignVolume(
              RequireGRPs(
                PathE(AfterPathD(input), input),
              input),
            input),
          input),
        input),
      input),
    input)

\* The catch clause that drops the message.
resolveTactic_SwallowsError(input) == TryBlock(input).result

\* catch (err): the message joins the errors of the result built so far.
Catch(s) ==
    IF s.ctl = "throw"
    THEN [s.result EXCEPT !.errors = Append(@, s.message)]
    ELSE s.result

resolveTactic(input) == Catch(TryBlock(input))

-----------------------------------------------------------------------------
(* resolveTactic with its arrays as objects: a heap of arrays, a result     *)
(* holding references to its warnings and errors arrays.                   *)

\* Two arrays kept from call to call.
NewLists_Shared(heap) == [warnings |-> 1, errors |-> 2]

\* warnings: [], errors: []: two arrays no earlier result holds.
NewLists(heap) == [warnings |-> Len(heap) + 1, errors |-> Len(heap) + 2]

\* The heap once the call has pushed its warnings and errors, and the result
\* object the call returns.
OnHeap(heap, lists, r) ==
    LET allocated == IF lists.errors > Len(heap) THEN heap \o << <<>>, <<>> >>
                     ELSE heap
        pushed == [allocated EXCEPT ![lists.warnings] = @ \o r.warnings,
                                    ![lists.errors] = @ \o r.errors]
    IN  [heap |-> pushed,
         result |-> [r EXCEPT !.warnings = lists.warnings,
                              !.errors = lists.errors]]

resolveTacticOnHeap(heap, input) ==
    OnHeap(heap, NewLists(heap), resolveTactic(input))

\* The result object read through the heap.
Deref(heap, result) ==
    [result EXCEPT !.warnings = heap[result.warnings],
                   !.errors = heap[result.errors]]

-----------------------------------------------------------------------------
(* Combinable groups.                                                      *)

\* Array.prototype.find over the tactics: the lowest index whose tactic
\* satisfies Test, 0 when there is none.
\* tests[i] is the outcome of the callback on tactics[i].
FindIndex_Last(tests) ==
    LET hits == {i \in 1..Len(tests) : tests[i]}
    IN  IF hits = {} THEN 0 ELSE CHOOSE i \in hits : \A j \in hits : j <= i

FindIndex(tests) ==
    LET hits == {i \in 1..Len(tests) : tests[i]}
    IN  IF hits = {} THEN 0 ELSE CHOOSE i \in hits : \A j \in hits : i <= j

\* The audience test that also looks at the audience's name.
AudienceSizeDiffers_OrName(t, first) ==
    t.audienceSize # first.audienceSize \/ t.audienceName # first.audienceName

GeoDiffers(t, first) == t.geoName # first.geoName
AudienceSizeDiffers(t, first) == t.audienceSize # first.audienceSize

\* The two messages, as the values interpolated into them.
GeographyError(first, other) ==
    [about |-> "different geographies",
     firstTactic |-> first.tacticName, firstValue |-> first.geoName,
     otherTactic |-> other.tacticName, otherValue |-> other.geoName]

AudienceSizeError(first, other) ==
    [about |-> "different audience sizes",
     firstTactic |-> first.tacticName, firstValue |-> first.audienceSize,
     otherTactic |-> other.tacticName, otherValue |-> other.audienceSize]

Valid == [valid |-> TRUE]
Invalid(error) == [valid |-> FALSE, error |-> error]

validateCombinableGroup(tactics) ==
    IF Len(tactics) < 2 THEN Valid
    ELSE LET first == tactics[1]
             mismatchedGeo ==
                 FindIndex([i \in 1..Len(tactics) |->
                               GeoDiffers(tactics[i], first)])
             mismatchedAudience ==
                 FindIndex([i \in 1..Len(tactics) |->
                               AudienceSizeDiffers(tactics[i], first)])
         IN  IF mismatchedGeo # 0
             THEN Invalid(GeographyError(first, tactics[mismatchedGeo]))
             ELSE IF mismatchedAudience # 0
             THEN Invalid(AudienceSizeError(first, tactics[mismatchedAudience]))
             ELSE Valid

-----------------------------------------------------------------------------
(* Form rows: the text of a field, its number, and the row status.         *)

NaN == [nan |-> TRUE]

\* String.prototype.trim on the texts a field is given here.
Trim(text) ==
    CASE text = " " -> ""
      [] text = " 10 " -> "10"
      [] OTHER -> text

\* The decimal numerals among those texts.
Numerals ==
    ("-5" :> -5) @@ ("0" :> 0) @@ ("1" :> 1) @@ ("2" :> 2) @@ ("10" :> 10)
    @@ ("25" :> 25) @@ ("50" :> 50) @@ ("100" :> 100) @@ ("125" :> 125)
    @@ ("150" :> 150) @@ ("200" :> 200) @@ ("300" :> 300)

\* Number(text): white space around a numeral is ignored, empty or blank text
\* is 0, anything else is NaN.
NumberOf(text) ==
    LET t == Trim(text)
    IN  IF t = "" THEN R(0)
        ELSE IF t \in DOMAIN Numerals THEN R(Numerals[t])
        ELSE NaN

\* No text here gives an infinite number.
isFinite(n) == n # NaN

\* The CPM test that admits 0.
isCPMPresent_AllowsZero(value) ==
    LET trimmed == Trim(value)
    IN  IF trimmed = "" THEN FALSE
        ELSE LET n == NumberOf(trimmed) IN isFinite(n) /\ RGe(n, Zero)

isPresent(value) ==
    LET trimmed == Trim(value)
    IN  IF trimmed = "" THEN FALSE
        ELSE LET n == NumberOf(trimmed) IN isFinite(n) /\ RGe(n, Zero)

isCPMPresent(value) ==
    LET trimmed == Trim(value)
    IN  IF trimmed = "" THEN FALSE
        ELSE LET n == NumberOf(trimmed) IN isFinite(n) /\ RGt(n, Zero)

FieldsPresent(form) ==
    [grps |-> isPresent(form.grps),
     grossImpressions |-> isPresent(form.grossImpressions),
     cost |-> isPresent(form.cost),
     cpm |-> isCPMPresent(form.cpm),
     reachPercent |-> isPresent(form.reachPercent),
     frequency |-> isPresent(form.frequency)]

PushIf(cond, q, x) == IF cond THEN Append(q, x) ELSE q

ActiveGroups(has) ==
    PushIf(has.reachPercent \/ has.frequency,
      PushIf(has.grps,
        PushIf(has.grossImpressions,
          PushIf(has.cost \/ has.cpm, <<>>, "volume_costcpm"),
          "volume_impressions"),
        "volume_grps"),
      "breakdown_reachfreq")

Status(overallStatus, guidanceMessage) ==
    [overallStatus |-> overallStatus, guidanceMessage |-> guidanceMessage]

\* Volume without breakdown on channel "TV".
TVVolumeStatus(has) ==
    Status("ready",
           IF has.grps
           THEN "GRPs are in for TV. Reach% will be auto-estimated from the reach curve, or add your own Reach%/Frequency."
           ELSE IF has.grossImpressions
           THEN "Got your impressions for TV. Reach% will be auto-estimated, or add your own."
           ELSE "Cost + CPM locked in for TV. Reach% will be auto-estimated, or add your own.")

\* Volume without breakdown on any other channel.
OtherVolumeStatus(has) ==
    Status("partial",
           IF has.grps
           THEN "Good, GRPs are in. Now add Reach% or Frequency so we can break that down."
           ELSE IF has.grossImpressions
           THEN "Got your impressions. Now add Reach% or Frequency to complete the picture."
           ELSE "Cost + CPM locked in. Now add Reach% or Frequency and you're done.")

StartMessage ==
    "Start with what you know: Cost+CPM, GRPs, Impressions, or Reach%+Frequency."

analyzeRowInputs(form) ==
    LET has == FieldsPresent(form)
        activeGroups == ActiveGroups(has)
        hasStartedInput ==
            \/ has.grps \/ has.grossImpressions \/ has.cost
            \/ has.cpm \/ has.reachPercent \/ has.frequency
        pathCComplete == has.cost /\ has.cpm
        pathCPartial == (has.cost \/ has.cpm) /\ ~pathCComplete
        anyVolumePath == has.grps \/ has.grossImpressions \/ pathCComplete
        pathDComplete == has.reachPercent /\ has.frequency
        hasAnyBreakdown == has.reachPercent \/ has.frequency
        status ==
            IF pathDComplete
            THEN Status("ready",
                        "All set! Reach% + Frequency is enough to calculate everything.")
            ELSE IF anyVolumePath /\ hasAnyBreakdown
            THEN Status("ready",
                        "All set! You have enough data for a full calculation.")
            ELSE IF anyVolumePath /\ ~hasAnyBreakdown
            THEN IF form.channel = "TV" THEN TVVolumeStatus(has)
                 ELSE OtherVolumeStatus(has)
            ELSE IF has.reachPercent /\ ~has.frequency /\ ~anyVolumePath
            THEN Status("partial",
                        "Have your Reach%. Add Frequency to complete the pair, or enter GRPs/Impressions/Cost+CPM for volume.")
            ELSE IF has.frequency /\ ~has.reachPercent /\ ~anyVolumePath
            THEN Status("insufficient",
                        "Frequency alone isn't enough. Pair it with Reach%, or enter GRPs/Impressions/Cost+CPM.")
            ELSE IF pathCPartial
            THEN Status("insufficient",
                        "Almost there - add "
                            \o (IF ~has.cost THEN "Cost" ELSE "CPM")
                            \o " to complete the Cost + CPM pair.")
            ELSE Status("insufficient", StartMessage)
    IN  [overallStatus |-> status.overallStatus,
         guidanceMessage |-> status.guidanceMessage,
         activeGroups |-> activeGroups,
         hasStartedInput |-> hasStartedInput]

-----------------------------------------------------------------------------
(* The page: parsing a form row, the input schema, and Calculate.          *)

CHANNELS == {"TV", "Radio", "OOH", "Print", "Social", "Digital", "Other"}

\* form.field ? Number(form.field) : null, for any text that is not empty.
ParsedNumber(text) == IF text # "" THEN NumberOf(text) ELSE Null

parseFormToInput(form) ==
    [id |-> form.id,
     tacticName |-> Trim(form.tacticName),
     geoName |-> Trim(form.geoName),
     audienceName |-> Trim(form.audienceName),
     audienceSize |-> ParsedNumber(form.audienceSize),
     channel |-> form.channel,
     grps |-> ParsedNumber(form.grps),
     grossImpressions |-> ParsedNumber(form.grossImpressions),
     cost |-> ParsedNumber(form.cost),
     cpm |-> ParsedNumber(form.cpm),
     reachPercent |-> ParsedNumber(form.reachPercent),
     frequency |-> ParsedNumber(form.frequency)]

\* z.number()...optional().nullable(): absent, or a number (never NaN) that
\* passes the field's checks.
OptionalNumber(v) == v = Null \/ v # NaN

\* .min(lo), .positive() and .max(hi) on such a field.
Min(v, lo) == (v # Null /\ v # NaN) => RGe(v, lo)
Positive(v) == (v # Null /\ v # NaN) => RGt(v, Zero)
Max(v, hi) == (v # Null /\ v # NaN) => RLe(v, hi)

\* The refinement: at least one input set.
HasInputSet(data) ==
    \/ data.grps # Null
    \/ data.grossImpressions # Null
    \/ data.cost # Null /\ data.cpm # Null
    \/ data.reachPercent # Null /\ data.frequency # Null
    \/ data.reachPercent # Null

tacticInputSchema(raw) ==
    /\ raw.tacticName # ""
    /\ raw.geoName # ""
    /\ raw.audienceName # ""
    /\ raw.audienceSize # Null /\ raw.audienceSize # NaN
    /\ raw.audienceSize.d = 1 /\ RGt(raw.audienceSize, Zero)
    /\ raw.channel \in CHANNELS
    /\ OptionalNumber(raw.grps) /\ Min(raw.grps, Zero)
    /\ OptionalNumber(raw.grossImpressions) /\ Min(raw.grossImpressions, Zero)
    /\ OptionalNumber(raw.cost) /\ Min(raw.cost, Zero)
    /\ OptionalNumber(raw.cpm) /\ Positive(raw.cpm)
    /\ OptionalNumber(raw.reachPercent)
    /\ Min(raw.reachPercent, Zero) /\ Max(raw.reachPercent, Hundred)
    /\ OptionalNumber(raw.frequency) /\ Min(raw.frequency, Zero)
    /\ HasInputSet(raw)

safeParse(raw) ==
    IF tacticInputSchema(raw) THEN [success |-> TRUE, data |-> raw]
    ELSE [success |-> FALSE]

\* The record handleCalculate passes to resolveTactic.
ResolverInput(input) ==
    [tacticName |-> input.tacticName,
     geoName |-> input.geoName,
     audienceName |-> input.audienceName,
     audienceSize |-> input.audienceSize,
     channel |-> input.channel,
     grps |-> input.grps,
     grossImpressions |-> input.grossImpressions,
     cost |-> input.cost,
     cpm |-> input.cpm,
     reachPercent |-> input.reachPercent,
     frequency |-> input.frequency]

\* resolved.filter((_r, i) => selectedIds.has(validInputs[i].id))
RECURSIVE SelectedFrom(_, _, _, _)
SelectedFrom(resolved, validInputs, selectedIds, i) ==
    IF i > Len(resolved) THEN <<>>
    ELSE (IF validInputs[i].id \in selectedIds THEN <<resolved[i]>> ELSE <<>>)
         \o SelectedFrom(resolved, validInputs, selectedIds, i + 1)

HasReachAndGRPs(r) == r.reachPercent # Null /\ r.grps # Null

PlanInput(r) ==
    [tacticName |-> r.tacticName, reachPercent |-> r.reachPercent, grps |-> r.grps]

MissingReachError ==
    [about |->
        "Some selected tactics do not have Reach% or GRPs computed. Cannot combine."]

\* The page state the handler writes.
InitialPage ==
    [fieldErrors |-> {}, resolvedTactics |-> <<>>, planSummary |-> Null,
     planError |-> Null, showResults |-> FALSE]

\* setPlanSummary(summary); setPlanError(null), unless computePlanSummary
\* threw: nothing catches it.
SetPlanSummary(page, summary) ==
    IF summary.threw THEN Throw(summary.message)
    ELSE Return([page EXCEPT !.planError = Null,
                             !.planSummary = summary.value])

\* The plan part of Calculate, for the selected resolved tactics.
PlanOf(page, selected) ==
    IF Len(selected) >= 2
    THEN LET combineCheck == validateCombinableGroup(selected)
             withReach == SelectSeq(selected, HasReachAndGRPs)
         IN  IF ~combineCheck.valid
             THEN Return([page EXCEPT !.planError = combineCheck.error,
                                      !.planSummary = Null])
             ELSE IF Len(withReach) < Len(selected)
             THEN Return([page EXCEPT !.planError = MissingReachError,
                                      !.planSummary = Null])
             ELSE SetPlanSummary(
                      page,
                      computePlanSummary(
                          [i \in 1..Len(withReach) |-> PlanInput(withReach[i])],
                          withReach[1].audienceSize))
    ELSE Return([page EXCEPT !.planError = Null, !.planSummary = Null])

\* Calculate.  fieldErrors keeps the ids of the rows the schema rejects, not
\* the messages.
ParseAll(tactics) ==
    [i \in 1..Len(tactics) |-> safeParse(parseFormToInput(tactics[i]))]

ResolveAll(validInputs) ==
    [i \in 1..Len(validInputs) |-> resolveTactic(ResolverInput(validInputs[i]))]

\* setShowResults(true), reached only when nothing was thrown before it.
ShowResults(plan) ==
    IF plan.threw THEN plan
    ELSE Return([plan.value EXCEPT !.showResults = TRUE])

AfterResolve(page, validInputs, resolved, selectedIds) ==
    ShowResults(PlanOf([page EXCEPT !.fieldErrors = {},
                                    !.resolvedTactics = resolved],
                       SelectedFrom(resolved, validInputs, selectedIds, 1)))

AfterParse(page, tactics, parses, selectedIds) ==
    LET rows == 1..Len(tactics)
        newErrors == {tactics[i].id : i \in {j \in rows : ~parses[j].success}}
        validInputs == [i \in rows |-> parses[i].data]
    IN  IF newErrors # {}
        THEN Return([page EXCEPT !.fieldErrors = newErrors,
                                 !.showResults = FALSE])
        ELSE AfterResolve(page, validInputs, ResolveAll(validInputs),
                          selectedIds)

handleCalculate(page, tactics, selectedIds) ==
    AfterParse(page, tactics, ParseAll(tactics), selectedIds)

-----------------------------------------------------------------------------
(* The calls.                                                              *)

MaxTactics == 3

TacticNames == {"A", "B"}
ReachValues == {R(-10), R(0), R(30), R(60), R(100), R(150)}

SeqsUpTo(S, n) == UNION {[1..k -> S] : k \in 0..n}

ReachTactics == [tacticName : TacticNames, reachPercent : ReachValues]

InitCombinedReach ==
    /\ op = "combinedReach"
    /\ args \in {[tactics |-> ts] : ts \in SeqsUpTo(ReachTactics, MaxTactics)}

PlanGRPs == {R(-50), R(50), R(100)}
PlanReachValues == {R(0), R(30), R(60), R(100), R(150)}
PlanAudienceSizes == {R(5), R(250)}

PlanTactics ==
    [tacticName : {"A"}, reachPercent : PlanReachValues, grps : PlanGRPs]

InitComputePlanSummary ==
    /\ op = "computePlanSummary"
    /\ args \in [tactics : SeqsUpTo(PlanTactics, MaxTactics),
                 audienceSize : PlanAudienceSizes]

\* A value within 0.01 of 50 GRPs and different from it.
NearFifty == Frac(5001, 100)

InputGRPs == {Null, R(-1), R(0), R(50), NearFifty, R(300)}
InputImpressions == {Null, R(-1), R(0), R(100), R(400)}
InputCosts == {Null, R(-1), R(0), R(1)}
InputCPMs == {Null, R(0), R(10)}
InputReachPercents == {Null, R(-5), R(0), R(25), R(100), R(150)}
InputFrequencies == {Null, R(-1), R(0), Frac(1, 2), R(2)}
InputChannels == {"TV", "Digital"}
InputAudienceSizes == {R(0), R(200)}

TacticInputs ==
    [tacticName : {"Test Tactic"}, geoName : {"US National"},
     audienceName : {"Adults 25-54"}, audienceSize : InputAudienceSizes,
     channel : InputChannels, grps : InputGRPs,
     grossImpressions : InputImpressions, cost : InputCosts, cpm : InputCPMs,
     reachPercent : InputReachPercents, frequency : InputFrequencies]

\* The near-50 GRPs value is drawn only beside Reach% + Frequency, where it is
\* the value compared and replaced, never the one an exponential is taken of.
InitResolveTactic ==
    /\ op = "resolveTactic"
    /\ args \in {[input |-> i] : i \in
                    {t \in TacticInputs :
                        t.grps = NearFifty =>
                            t.reachPercent # Null /\ t.frequency # Null}}

\* The tactics of a group, named by their place in it.
GroupNames == <<"TV", "Radio", "Digital", "Print">>
GroupGeos == {"US National", "NY DMA"}
GroupAudienceNames == {"A25-54", "A18-49"}
GroupAudienceSizes == {R(100), R(125)}

GroupTactics ==
    [geoName : GroupGeos, audienceName : GroupAudienceNames,
     audienceSize : GroupAudienceSizes]

Named(ts) ==
    [i \in 1..Len(ts) |->
        [tacticName |-> GroupNames[i],
         geoName |-> ts[i].geoName,
         audienceName |-> ts[i].audienceName,
         audienceSize |-> ts[i].audienceSize]]

InitValidateCombinableGroup ==
    /\ op = "validateCombinableGroup"
    /\ args \in {[tactics |-> Named(ts)] : ts \in SeqsUpTo(GroupTactics, MaxTactics)}

\* The texts typed into the six number fields of a form row.
GRPsTexts == {"", " ", "abc", "-5", "0", "50"}
ImpressionsTexts == {"", "abc", "100"}
CostTexts == {"", "-5", "0", "1"}
CPMTexts == {"", "0", "10", " 10 "}
ReachPercentTexts == {"", " ", "-5", "0", "25", "150"}
FrequencyTexts == {"", "abc", "0", "2"}

RowForms ==
    [grps : GRPsTexts, grossImpressions : ImpressionsTexts, cost : CostTexts,
     cpm : CPMTexts, reachPercent : ReachPercentTexts,
     frequency : FrequencyTexts, channel : InputChannels]

InitAnalyzeRowInputs ==
    /\ op = "analyzeRowInputs"
    /\ args \in {[form |-> f] : f \in RowForms}

\* The rows of the page: one form per way a row can resolve, with id and
\* tactic name given by the row's place.
BlankForm ==
    [geoName |-> "US National", audienceName |-> "A25-54", audienceSize |-> "200",
     channel |-> "Digital", grps |-> "", grossImpressions |-> "", cost |-> "",
     cpm |-> "", reachPercent |-> "", frequency |-> ""]

ReachFrequencyForm == [BlankForm EXCEPT !.reachPercent = "25", !.frequency = "2"]

PageForms ==
    {ReachFrequencyForm,
     [BlankForm EXCEPT !.grps = "300", !.frequency = "2"],
     [BlankForm EXCEPT !.grps = "50"],
     [BlankForm EXCEPT !.reachPercent = "0", !.frequency = "2"],
     [ReachFrequencyForm EXCEPT !.geoName = "NY DMA"],
     [ReachFrequencyForm EXCEPT !.audienceSize = "125"],
     [BlankForm EXCEPT !.reachPercent = "150"]}

RowIds == <<"row1", "row2", "row3", "row4">>

PageRows(fs) ==
    [i \in 1..Len(fs) |->
        [id |-> RowIds[i],
         tacticName |-> GroupNames[i],
         geoName |-> fs[i].geoName,
         audienceName |-> fs[i].audienceName,
         audienceSize |-> fs[i].audienceSize,
         channel |-> fs[i].channel,
         grps |-> fs[i].grps,
         grossImpressions |-> fs[i].grossImpressions,
         cost |-> fs[i].cost,
         cpm |-> fs[i].cpm,
         reachPercent |-> fs[i].reachPercent,
         frequency |-> fs[i].frequency]]

InitHandleCalculate ==
    /\ op = "handleCalculate"
    /\ args \in {[tactics |-> PageRows(fs), selectedIds |-> ids] :
                    fs \in SeqsUpTo(PageForms, MaxTactics),
                    ids \in SUBSET {RowIds[i] : i \in 1..MaxTactics}}
    /\ \A id \in args.selectedIds :
           \E i \in 1..Len(args.tactics) : args.tactics[i].id = id

\* The inputs resolved twice in a row.
TwiceInputs ==
    {t \in TacticInputs :
        /\ t.cost = Null /\ t.cpm = Null
        /\ t.audienceSize = R(200)
        /\ t.grps # NearFifty}

InitResolveTwice ==
    /\ op = "resolveTwice"
    /\ args \in {[input |-> i] : i \in TwiceInputs}

\* GRPs values for effectiveReach3Plus, up to ones whose lambda is past the
\* underflow of Math.exp.
EffectiveGRPs ==
    {R(-10), R(0), R(50), R(100), R(300), R(1000), R(100000), R(200000)}

InitEffectiveReach3Plus ==
    /\ op = "effectiveReach3Plus"
    /\ args \in {[grps |-> g] : g \in EffectiveGRPs}

Init ==
    /\ pc = "call"
    /\ ret = NoReturn
    /\ \/ InitCombinedReach
       \/ InitComputePlanSummary
       \/ InitResolveTactic
       \/ InitValidateCombinableGroup
       \/ InitAnalyzeRowInputs
       \/ InitHandleCalculate
       \/ InitResolveTwice
       \/ InitEffectiveReach3Plus
    /\ given = args

CombinedReachCall ==
    /\ pc = "call"
    /\ op = "combinedReach"
    /\ ret' = combinedReach(args.tactics)
    /\ pc' = "done"
    /\ UNCHANGED <<op, args, given>>

ComputePlanSummaryCall ==
    /\ pc = "call"
    /\ op = "computePlanSummary"
    /\ ret' = computePlanSummary(args.tactics, args.audienceSize)
    /\ pc' = "done"
    /\ UNCHANGED <<op, args, given>>

ResolveTacticCall ==
    /\ pc = "call"
    /\ op = "resolveTactic"
    /\ ret' = Return(resolveTactic(args.input))
    /\ pc' = "done"
    /\ UNCHANGED <<op, args, given>>

ValidateCombinableGroupCall ==
    /\ pc = "call"
    /\ op = "validateCombinableGroup"
    /\ ret' = Return(validateCombinableGroup(args.tactics))
    /\ pc' = "done"
    /\ UNCHANGED <<op, args, given>>

AnalyzeRowInputsCall ==
    /\ pc = "call"
    /\ op = "analyzeRowInputs"
    /\ ret' = Return(analyzeRowInputs(args.form))
    /\ pc' = "done"
    /\ UNCHANGED <<op, args, given>>

HandleCalculateCall ==
    /\ pc = "call"
    /\ op = "handleCalculate"
    /\ ret' = handleCalculate(InitialPage, args.tactics, args.selectedIds)
    /\ pc' = "done"
    /\ UNCHANGED <<op, args, given>>

\* The first call: its result object, the heap, and the result as it reads
\* when returned.
\* What the caller holds after the first call: the heap, the result object,
\* and what it read from the result at that moment.
FirstOutcome(first) ==
    [heap |-> first.heap,
     results |-> <<first.result>>,
     firstRead |-> Deref(first.heap, first.result)]

\* ... and after the second call.
SecondOutcome(held, second) ==
    [held EXCEPT !.heap = second.heap,
                 !.results = Append(@, second.result)]

ResolveFirstCall ==
    /\ pc = "call"
    /\ op = "resolveTwice"
    /\ ret' = FirstOutcome(resolveTacticOnHeap(<<>>, args.input))
    /\ pc' = "again"
    /\ UNCHANGED <<op, args, given>>

\* The second call, on the same input record.
ResolveSecondCall ==
    /\ pc = "again"
    /\ op = "resolveTwice"
    /\ ret' = SecondOutcome(ret, resolveTacticOnHeap(ret.heap, args.input))
    /\ pc' = "done"
    /\ UNCHANGED <<op, args, given>>

EffectiveReach3PlusCall ==
    /\ pc = "call"
    /\ op = "effectiveReach3Plus"
    /\ ret' = effectiveReach3Plus(args.grps)
    /\ pc' = "done"
    /\ UNCHANGED <<op, args, given>>

Next ==
    \/ CombinedReachCall
    \/ ComputePlanSummaryCall
    \/ ResolveTacticCall
    \/ ValidateCombinableGroupCall
    \/ AnalyzeRowInputsCall
    \/ HandleCalculateCall
    \/ ResolveFirstCall
    \/ ResolveSecondCall
    \/ EffectiveReach3PlusCall

Spec == Init /\ [][Next]_vars

-----------------------------------------------------------------------------
(* Properties of combinedReach.                                            *)

CombinedReachDone == pc = "done" /\ op = "combinedReach"

AllInRange(tactics) ==
    \A i \in 1..Len(tactics) :
        RGe(tactics[i].reachPercent, Zero) /\ RLe(tactics[i].reachPercent, Hundred)

RECURSIVE UnreachedProduct(_, _)
\* The product over the first k tactics of (1 - r_i/100).
UnreachedProduct(tactics, k) ==
    IF k = 0 THEN R(1)
    ELSE RMul(UnreachedProduct(tactics, k - 1),
              RSub(R(1), RDiv(tactics[k].reachPercent, Hundred)))

ClosedForm(tactics) ==
    RMin(Hundred,
         RMul(Hundred, RSub(R(1), UnreachedProduct(tactics, Len(tactics)))))

\* C1: for a non-empty list of tactics with every reachPercent in [0,100],
\* combinedReach returns combinedReachPercent = 100 * (1 - PRODUCT(1 - r_i/100)),
\* clamped at 100.
C1_ClosedForm ==
    (CombinedReachDone /\ Len(args.tactics) > 0 /\ AllInRange(args.tactics))
    => /\ ~ret.threw
       /\ ret.value.combinedReachPercent = ClosedForm(args.tactics)

\* 30% + 60% + 30% combine to 80.4%.
C1_Witness ==
    /\ CombinedReachDone
    /\ Len(args.tactics) = 3
    /\ args.tactics[1].reachPercent = R(30)
    /\ args.tactics[2].reachPercent = R(60)
    /\ args.tactics[3].reachPercent = R(30)
    /\ ~ret.threw
    /\ ret.value.combinedReachPercent = Frac(804, 10)

Reorderings(n) == {p \in [1..n -> 1..n] : \A i, j \in 1..n : p[i] = p[j] => i = j}

Reordered(tactics, p) == [i \in 1..Len(tactics) |-> tactics[p[i]]]

\* C2: every reordering of a list of tactics (all reachPercent in [0,100]) gives
\* the same combinedReachPercent as the list itself.
C2_OrderInvariant ==
    (CombinedReachDone /\ AllInRange(args.tactics))
    => \A p \in Reorderings(Len(args.tactics)) :
          LET other == combinedReach(Reordered(args.tactics, p))
          IN  /\ ~other.threw
              /\ ~ret.threw
              /\ other.value.combinedReachPercent = ret.value.combinedReachPercent

\* A list given in ascending order, three different reach values.
C2_Witness ==
    /\ CombinedReachDone
    /\ Len(args.tactics) = 3
    /\ args.tactics[1].reachPercent = R(0)
    /\ args.tactics[2].reachPercent = R(30)
    /\ args.tactics[3].reachPercent = R(60)
    /\ ~ret.threw
    /\ ret.value.combinedReachPercent = R(72)

\* C3: the steps obey the sequential-remainder recurrence: step 1 has
\* remainder 100 and incremental = runningTotal = its reachPercent; a later
\* step i has remainder = 100 - runningTotal(i-1), incremental = remainder *
\* reachPercent / 100 and runningTotal = runningTotal(i-1) + incremental; and
\* the last runningTotal, capped at 100, is combinedReachPercent.
C3_Recurrence ==
    (CombinedReachDone /\ ~ret.threw /\ Len(args.tactics) > 0)
    => LET steps == ret.value.steps
           n == Len(steps)
       IN  /\ n > 0
           /\ steps[1].remainder = Hundred
           /\ steps[1].incremental = steps[1].reachPercent
           /\ steps[1].runningTotal = steps[1].reachPercent
           /\ \A i \in 2..n :
                 /\ steps[i].remainder = RSub(Hundred, steps[i - 1].runningTotal)
                 /\ steps[i].incremental =
                        RDiv(RMul(steps[i].remainder, steps[i].reachPercent), Hundred)
                 /\ steps[i].runningTotal =
                        RAdd(steps[i - 1].runningTotal, steps[i].incremental)
           /\ ret.value.combinedReachPercent = RMin(Hundred, steps[n].runningTotal)

\* 60% then 30%: remainder 40, incremental 12, running total 72.
C3_Witness ==
    /\ CombinedReachDone
    /\ ~ret.threw
    /\ Len(ret.value.steps) = 3
    /\ ret.value.steps[2].remainder = R(40)
    /\ ret.value.steps[2].incremental = R(12)
    /\ ret.value.steps[2].runningTotal = R(72)
    /\ ret.value.steps[3].remainder = R(28)

NamesWithReach(rows, v) ==
    LET keep == SelectSeq(rows, LAMBDA t : t.reachPercent = v)
    IN  [i \in 1..Len(keep) |-> keep[i].tacticName]

\* C4: combinedReach returns one step per input tactic (none for the empty
\* list, one for a single tactic, whose reach is returned unchanged), the steps
\* are in descending reachPercent order with tactics of equal reachPercent in
\* their input order, and the caller's list is left as it was given.
C4_StepsSortedStable ==
    (CombinedReachDone /\ ~ret.threw)
    => LET steps == ret.value.steps
           tactics == given.tactics
       IN  /\ Len(steps) = Len(tactics)
           /\ Len(tactics) = 1 =>
                 ret.value.combinedReachPercent = tactics[1].reachPercent
           /\ \A i \in 1..(Len(steps) - 1) :
                 RGe(steps[i].reachPercent, steps[i + 1].reachPercent)
           /\ \A v \in ReachValues :
                 NamesWithReach(steps, v) = NamesWithReach(tactics, v)
           /\ args = given

\* B(30), A(60), A(30) is returned as A(60), B(30), A(30).
C4_Witness ==
    /\ CombinedReachDone
    /\ ~ret.threw
    /\ given.tactics = <<[tacticName |-> "B", reachPercent |-> R(30)],
                         [tacticName |-> "A", reachPercent |-> R(60)],
                         [tacticName |-> "A", reachPercent |-> R(30)]>>
    /\ [i \in 1..3 |-> ret.value.steps[i].tacticName] = <<"A", "B", "A">>

\* C5: for a non-empty list with every reachPercent in [0,100], the
\* combinedReachPercent is at least the largest reachPercent and at most 100,
\* every incremental is >= 0, runningTotal never decreases, and a list holding a
\* tactic of reachPercent 100 yields exactly 100.
C5_Bounds ==
    (CombinedReachDone /\ Len(args.tactics) > 0 /\ AllInRange(args.tactics))
    => /\ ~ret.threw
       /\ LET steps == ret.value.steps
              combined == ret.value.combinedReachPercent
          IN  /\ \A i \in 1..Len(args.tactics) :
                    RGe(combined, args.tactics[i].reachPercent)
              /\ RLe(combined, Hundred)
              /\ \A i \in 1..Len(steps) : RGe(steps[i].incremental, Zero)
              /\ \A i \in 2..Len(steps) :
                    RGe(steps[i].runningTotal, steps[i - 1].runningTotal)
              /\ (\E i \in 1..Len(args.tactics) :
                     args.tactics[i].reachPercent = Hundred)
                 => combined = Hundred

\* 30% + 100% + 60%: the combined reach is exactly 100.
C5_Witness ==
    /\ CombinedReachDone
    /\ Len(args.tactics) = 3
    /\ args.tactics[1].reachPercent = R(30)
    /\ args.tactics[2].reachPercent = Hundred
    /\ args.tactics[3].reachPercent = R(60)
    /\ ~ret.threw
    /\ ret.value.combinedReachPercent = Hundred
    /\ ret.value.steps[3].incremental = Zero

\* C6: combinedReach throws if and only if the list is non-empty and some
\* reachPercent is below 0 or above 100; the empty list returns 0% and no steps.
C6_ThrowsIffOutOfRange ==
    CombinedReachDone
    => /\ ret.threw <=>
             (Len(args.tactics) > 0 /\ ~AllInRange(args.tactics))
       /\ Len(args.tactics) = 0 =>
             ret = Return([steps |-> <<>>, combinedReachPercent |-> Zero])

\* A negative reach% behind two valid ones makes the call throw.
C6_Witness ==
    /\ CombinedReachDone
    /\ Len(args.tactics) = 3
    /\ args.tactics[1].reachPercent = R(30)
    /\ args.tactics[2].reachPercent = R(60)
    /\ args.tactics[3].reachPercent = R(-10)
    /\ ret.threw

-----------------------------------------------------------------------------
(* Properties of computePlanSummary.                                       *)

PlanSummaryDone == pc = "done" /\ op = "computePlanSummary"

GRPsOf(tactics) == [i \in 1..Len(tactics) |-> tactics[i].grps]

RECURSIVE SeqSum(_)
SeqSum(q) == IF q = <<>> THEN Zero ELSE RAdd(Head(q), SeqSum(Tail(q)))

\* C7: a plan summary has totalGRPs = the sum of the tactics' grps,
\* combinedReachPercent and steps those of combinedReach on the same tactics,
\* combinedReachNumber = round(combinedReachPercent/100 * audienceSize),
\* combinedAvgFrequency = totalGRPs / combinedReachPercent (0 when the combined
\* reach is 0), and the effective 3+ reach of totalGRPs (lambda = totalGRPs/100).
C7_PlanSummary ==
    (PlanSummaryDone /\ ~ret.threw)
    => LET v == ret.value
           total == SeqSum(GRPsOf(args.tactics))
           cr == combinedReach(NameAndReach(args.tactics))
           scaled == RMul(v.combinedReachPercent, args.audienceSize)
       IN  /\ v.totalGRPs = total
           /\ ~cr.threw
           /\ v.combinedReachPercent = cr.value.combinedReachPercent
           /\ v.combinedReachSteps = cr.value.steps
           \* round(x) is the integer k with k - 1/2 <= x < k + 1/2
           /\ v.combinedReachNumber.d = 1
           /\ RLe(RSub(RMul(v.combinedReachNumber, Hundred), R(50)), scaled)
           /\ RLt(scaled, RAdd(RMul(v.combinedReachNumber, Hundred), R(50)))
           /\ RGt(v.combinedReachPercent, Zero) =>
                 RMul(v.combinedAvgFrequency, v.combinedReachPercent) = total
           /\ v.combinedReachPercent = Zero => v.combinedAvgFrequency = Zero
           /\ v.effective3Plus.lambda = RDiv(total, Hundred)
           /\ Return(v.effective3Plus) = effectiveReach3Plus(total)

\* 60% with 100 GRPs and 30% with 50 GRPs on an audience of 5: 150 GRPs, 72%
\* combined, 3.6 people rounded to 4, frequency 150/72.
C7_Witness ==
    /\ PlanSummaryDone
    /\ ~ret.threw
    /\ Len(args.tactics) = 2
    /\ args.audienceSize = R(5)
    /\ ret.value.totalGRPs = R(150)
    /\ ret.value.combinedReachPercent = R(72)
    /\ ret.value.combinedReachNumber = R(4)
    /\ ret.value.combinedAvgFrequency = Frac(150, 72)
    /\ ret.value.effective3Plus.lambda = Frac(3, 2)
    /\ RGt(ret.value.effective3Plus.effective3PlusPercent, Zero)

\* All tactics at 0% reach: the combined reach is 0 and so is the frequency.
C7_WitnessZeroReach ==
    /\ PlanSummaryDone
    /\ ~ret.threw
    /\ Len(args.tactics) = 2
    /\ ret.value.totalGRPs = R(150)
    /\ ret.value.combinedReachPercent = Zero
    /\ ret.value.combinedAvgFrequency = Zero

-----------------------------------------------------------------------------
(* Properties of resolveTactic.                                            *)

ResolveDone == pc = "done" /\ op = "resolveTactic"

Has(x) == x # Null

InSeq(x, q) == \E i \in 1..Len(q) : q[i] = x

\* The field-level bounds of the schema the form layer applies before the
\* resolver runs, and its "at least one input set" refinement.
SchemaAccepts(input) ==
    /\ RGt(input.audienceSize, Zero) /\ input.audienceSize.d = 1
    /\ Has(input.grps) => RGe(input.grps, Zero)
    /\ Has(input.grossImpressions) => RGe(input.grossImpressions, Zero)
    /\ Has(input.cost) => RGe(input.cost, Zero)
    /\ Has(input.cpm) => RGt(input.cpm, Zero)
    /\ Has(input.reachPercent) =>
          RGe(input.reachPercent, Zero) /\ RLe(input.reachPercent, Hundred)
    /\ Has(input.frequency) => RGe(input.frequency, Zero)
    /\ \/ Has(input.grps)
       \/ Has(input.grossImpressions)
       \/ Has(input.cost) /\ Has(input.cpm)
       \/ Has(input.reachPercent)

HasCostCPM(input) == Has(input.cost) /\ Has(input.cpm)
HasVolume(input) ==
    Has(input.grps) \/ Has(input.grossImpressions) \/ HasCostCPM(input)
HasReachFrequency(input) == Has(input.reachPercent) /\ Has(input.frequency)

ImpressionsOfCost(input) == RMul(RDiv(input.cost, input.cpm), R(1000))
GRPsOfImpressions(imps, input) == RMul(RDiv(imps, input.audienceSize), Hundred)

\* The GRPs of the volume inputs by priority: grps, then grossImpressions, then
\* cost + cpm.
VolumeGRPs(input) ==
    IF Has(input.grps) THEN input.grps
    ELSE IF Has(input.grossImpressions)
    THEN GRPsOfImpressions(input.grossImpressions, input)
    ELSE GRPsOfImpressions(ImpressionsOfCost(input), input)

\* The impressions an earlier step set (grossImpressions, else cost + cpm), and
\* only without one the back-fill from grps.
VolumeImpressions(input) ==
    IF Has(input.grossImpressions) THEN input.grossImpressions
    ELSE IF HasCostCPM(input) THEN ImpressionsOfCost(input)
    ELSE RMul(RDiv(input.grps, Hundred), input.audienceSize)

\* C8: without both reachPercent and frequency, the returned grps is the
\* supplied grps if present, else (grossImpressions / audienceSize) * 100, else
\* ((cost / cpm) * 1000 / audienceSize) * 100; and grossImpressions is back-filled
\* from grps only when no earlier step set an impressions value.
C8_VolumeByPriority ==
    (/\ ResolveDone
     /\ SchemaAccepts(args.input)
     /\ HasVolume(args.input)
     /\ ~HasReachFrequency(args.input))
    => /\ ret.value.grps = VolumeGRPs(args.input)
       /\ ret.value.grossImpressions = VolumeImpressions(args.input)

\* The same with the code's reading of "set": an impressions value of 0 counts
\* as not set and is replaced by the back-fill.
C8_VolumeByPriorityZeroIsUnset ==
    (/\ ResolveDone
     /\ SchemaAccepts(args.input)
     /\ HasVolume(args.input)
     /\ ~HasReachFrequency(args.input))
    => /\ ret.value.grps = VolumeGRPs(args.input)
       /\ ret.value.grossImpressions =
             IF Has(args.input.grps) /\ VolumeImpressions(args.input) = Zero
             THEN RMul(RDiv(args.input.grps, Hundred), args.input.audienceSize)
             ELSE VolumeImpressions(args.input)

\* A step replaced the GRPs of the steps before it by a value further than 0.01
\* from it.
Replaced(before, after) ==
    /\ after.ctl = "run"
    /\ Has(before.grps)
    /\ Has(after.grps)
    /\ RGt(RAbs(RSub(after.grps, before.grps)), Frac(1, 100))

ReplacedByImpressions(input) == Replaced(AfterPathC(input), AfterPathB(input))
ReplacedByGRPs(input) == Replaced(AfterPathB(input), AfterPathA(input))
ReplacedByReachFrequency(input) == Replaced(AfterPathA(input), AfterPathD(input))

\* C9 as stated: whenever a later derivation step (grossImpressions, direct
\* grps, reach x frequency) replaces the GRPs of an earlier step by a value
\* differing by more than 0.01, the result's warnings hold a warning about it.
C9_EveryReplacementWarns ==
    (ResolveDone /\ SchemaAccepts(args.input))
    => ((\/ ReplacedByImpressions(args.input)
         \/ ReplacedByGRPs(args.input)
         \/ ReplacedByReachFrequency(args.input))
        => InSeq(ConflictWarning, ret.value.warnings))

\* C9 as amended: the reach x frequency step warns whenever it replaces an
\* earlier GRPs value by one differing by more than 0.01; a replacement made by
\* the grossImpressions step or the direct-grps step adds no warning of its own.
C9_ReachFrequencyReplacementWarns ==
    ResolveDone
    => /\ ReplacedByReachFrequency(args.input)
             => InSeq(ConflictWarning, ret.value.warnings)
       /\ (/\ ReplacedByImpressions(args.input) \/ ReplacedByGRPs(args.input)
           /\ ~ReplacedByReachFrequency(args.input))
             => ~InSeq(ConflictWarning, ret.value.warnings)

\* Cost + CPM give 50 GRPs, impressions replace them by 200 without a warning,
\* and reach x frequency replaces those by 50 with one.
C9_Witness ==
    /\ ResolveDone
    /\ args.input.cost = R(1) /\ args.input.cpm = R(10)
    /\ args.input.grossImpressions = R(400)
    /\ args.input.grps = Null
    /\ args.input.reachPercent = R(25) /\ args.input.frequency = R(2)
    /\ args.input.audienceSize = R(200)
    /\ ReplacedByImpressions(args.input)
    /\ ReplacedByReachFrequency(args.input)
    /\ ret.value.warnings = <<ConflictWarning>>
    /\ ret.value.grps = R(50)

\* C10: with reachPercent in [0,100] and frequency >= 0 both supplied, the
\* result has grps = reachPercent * frequency whatever volume inputs are
\* supplied too, grossImpressions = (grps / 100) * audienceSize (a supplied
\* impressions value is discarded), and the conflict warning exactly when the
\* volume inputs give a GRPs value further than 0.01 from reachPercent *
\* frequency.
C10_ReachFrequencyWins ==
    (/\ ResolveDone
     /\ SchemaAccepts(args.input)
     /\ HasReachFrequency(args.input))
    => LET product == RMul(args.input.reachPercent, args.input.frequency)
           conflict ==
               /\ HasVolume(args.input)
               /\ RGt(RAbs(RSub(VolumeGRPs(args.input), product)), Frac(1, 100))
       IN  /\ ret.value.grps = product
           /\ ret.value.grossImpressions =
                  RMul(RDiv(product, Hundred), args.input.audienceSize)
           /\ conflict <=> InSeq(ConflictWarning, ret.value.warnings)
           /\ Cardinality({i \in 1..Len(ret.value.warnings) :
                              ret.value.warnings[i] = ConflictWarning}) <= 1

\* 25% x 2 beside 300 GRPs and 400 impressions: 50 GRPs, 100 impressions, and
\* the warning.
C10_Witness ==
    /\ ResolveDone
    /\ args.input.reachPercent = R(25) /\ args.input.frequency = R(2)
    /\ args.input.grps = R(300)
    /\ args.input.grossImpressions = R(400)
    /\ args.input.audienceSize = R(200)
    /\ ret.value.grps = R(50)
    /\ ret.value.grossImpressions = R(100)
    /\ InSeq(ConflictWarning, ret.value.warnings)

\* 25% x 2 beside 50.01 GRPs: within the epsilon, so no warning.
C10_WitnessWithinEpsilon ==
    /\ ResolveDone
    /\ args.input.reachPercent = R(25) /\ args.input.frequency = R(2)
    /\ args.input.grps = NearFifty
    /\ args.input.audienceSize = R(200)
    /\ ret.value.grps = R(50)
    /\ ret.value.warnings = <<>>

NoErrors(result) == result.errors = <<>>

\* C11 as stated: input set D is fully resolved: with a positive audienceSize,
\* reachPercent in [0,100] and frequency >= 0 both supplied, the result has
\* isFullyResolved = TRUE, no errors, and grps, grossImpressions and the
\* effective 3+ reach non-null.
C11_ReachFrequencyFullyResolved ==
    (/\ ResolveDone
     /\ SchemaAccepts(args.input)
     /\ HasReachFrequency(args.input))
    => /\ ret.value.isFullyResolved
       /\ NoErrors(ret.value)
       /\ Has(ret.value.grps)
       /\ Has(ret.value.grossImpressions)
       /\ Has(ret.value.effective3Plus)

\* The same for reachPercent > 0, the inputs on which the code agrees.
C11_PositiveReachFullyResolved ==
    (/\ ResolveDone
     /\ SchemaAccepts(args.input)
     /\ HasReachFrequency(args.input)
     /\ RGt(args.input.reachPercent, Zero))
    => /\ ret.value.isFullyResolved
       /\ NoErrors(ret.value)
       /\ Has(ret.value.grps)
       /\ Has(ret.value.grossImpressions)
       /\ Has(ret.value.effective3Plus)

NoVolumeSource(input) ==
    /\ input.grps = Null
    /\ input.grossImpressions = Null
    /\ ~(Has(input.cost) /\ Has(input.cpm))

\* The integer nearest to reachPercent/100 * audienceSize, halves upwards.
IsRounded(k, reachPercent, audienceSize) ==
    LET scaled == RMul(reachPercent, audienceSize)
    IN  /\ k.d = 1
        /\ RLe(RSub(RMul(k, Hundred), R(50)), scaled)
        /\ RLt(scaled, RAdd(RMul(k, Hundred), R(50)))

\* C12: reachPercent supplied, frequency absent and no GRPs source (no grps, no
\* grossImpressions, not both cost and cpm): the terminal partial path.  The
\* result echoes reachPercent, has reachNum = round(reachPercent/100 *
\* audienceSize), null grps, grossImpressions, frequency and effective3Plus,
\* exactly one warning, no error, and isFullyResolved = FALSE.
C12_ReachOnlyPartial ==
    (/\ ResolveDone
     /\ Has(args.input.reachPercent)
     /\ args.input.frequency = Null
     /\ NoVolumeSource(args.input))
    => LET r == ret.value
       IN  /\ r.reachPercent = args.input.reachPercent
           /\ Has(r.reachNum)
           /\ IsRounded(r.reachNum, args.input.reachPercent, args.input.audienceSize)
           /\ r.grps = Null
           /\ r.grossImpressions = Null
           /\ r.frequency = Null
           /\ r.effective3Plus = Null
           /\ Len(r.warnings) = 1
           /\ NoErrors(r)
           /\ ~r.isFullyResolved

\* 25% of an audience of 200, beside a cost without a CPM: 50 people, one
\* warning.
C12_Witness ==
    /\ ResolveDone
    /\ args.input.reachPercent = R(25)
    /\ args.input.frequency = Null
    /\ args.input.cost = R(1) /\ args.input.cpm = Null
    /\ NoVolumeSource(args.input)
    /\ args.input.audienceSize = R(200)
    /\ ret.value.reachNum = R(50)
    /\ ret.value.warnings = <<ReachOnlyWarning>>

\* C13: no recognised input set (no grps, no grossImpressions, not both cost
\* and cpm, no reachPercent): the call returns a result with the one
\* insufficient-input error, every derived field null and isFullyResolved =
\* FALSE.
C13_NoInputSet ==
    (/\ ResolveDone
     /\ NoVolumeSource(args.input)
     /\ args.input.reachPercent = Null)
    => /\ ~ret.threw
       /\ LET r == ret.value
          IN  /\ r.errors = <<InsufficientError>>
              /\ r.grps = Null
              /\ r.grossImpressions = Null
              /\ r.reachPercent = Null
              /\ r.frequency = Null
              /\ r.reachNum = Null
              /\ r.effective3Plus = Null
              /\ ~r.isFullyResolved

\* A frequency and a CPM alone are no input set.
C13_Witness ==
    /\ ResolveDone
    /\ NoVolumeSource(args.input)
    /\ args.input.reachPercent = Null
    /\ args.input.frequency = R(2)
    /\ args.input.cost = Null /\ args.input.cpm = R(10)
    /\ ret.value.errors = <<InsufficientError>>

\* GRPs is known: step 1 (paths C, B, A, D) ended without a throw and left a
\* GRPs value.
GRPsKnown(input) ==
    LET s == AfterPathD(input) IN s.ctl = "run" /\ s.grps # Null

KnownGRPs(input) == AfterPathD(input).grps
KnownImpressions(input) == AfterPathD(input).grossImps

\* C14: GRPs known and frequency supplied without reachPercent.  With
\* frequency > 0 the result has reachPercent = grps / frequency and the
\* frequency supplied; with frequency <= 0 it has the frequency error, keeps
\* grps and grossImpressions, leaves reachPercent, frequency, reachNum and
\* effective3Plus null and has isFullyResolved = FALSE.
C14_FrequencyWithoutReach ==
    (/\ ResolveDone
     /\ GRPsKnown(args.input)
     /\ Has(args.input.frequency)
     /\ args.input.reachPercent = Null)
    => LET r == ret.value
           frequency == args.input.frequency
       IN  /\ r.grps = KnownGRPs(args.input)
           /\ r.grossImpressions = KnownImpressions(args.input)
           /\ SchemaAccepts(args.input) => r.grps = VolumeGRPs(args.input)
           /\ IF RGt(frequency, Zero)
              THEN /\ Has(r.reachPercent)
                   /\ RMul(r.reachPercent, frequency) = r.grps
                   /\ r.frequency = frequency
              ELSE /\ InSeq(FrequencyError, r.errors)
                   /\ Has(r.grps)
                   /\ Has(r.grossImpressions)
                   /\ r.reachPercent = Null
                   /\ r.frequency = Null
                   /\ r.reachNum = Null
                   /\ r.effective3Plus = Null
                   /\ ~r.isFullyResolved

\* 50 GRPs at a frequency of 2: 25% reach.
C14_Witness ==
    /\ ResolveDone
    /\ args.input.grps = R(50)
    /\ args.input.frequency = R(2)
    /\ args.input.reachPercent = Null
    /\ ret.value.reachPercent = R(25)
    /\ ret.value.frequency = R(2)
    /\ ret.value.isFullyResolved

\* 400 impressions on an audience of 200 at a frequency of 0: the error, with
\* 200 GRPs and the impressions kept.
C14_WitnessZeroFrequency ==
    /\ ResolveDone
    /\ args.input.grps = Null
    /\ args.input.grossImpressions = R(400)
    /\ args.input.audienceSize = R(200)
    /\ args.input.frequency = R(0)
    /\ args.input.reachPercent = Null
    /\ ret.value.grps = R(200)
    /\ ret.value.grossImpressions = R(400)
    /\ ret.value.errors = <<FrequencyError>>
    /\ ret.value.effective3Plus = Null

NoReachNoFrequency(input) == input.reachPercent = Null /\ input.frequency = Null

\* The result carries the curve's estimate for the GRPs known.
EstimatedFromCurve(r, input) ==
    /\ r.reachPercent =
           RMul(Hundred, RSub(R(1), MathExpNeg(RDiv(KnownGRPs(input), Hundred))))
    /\ Has(r.frequency)
    /\ RMul(r.frequency, r.reachPercent) = KnownGRPs(input)
    /\ r.reachPercentEstimated
    /\ InSeq(EstimatedWarning(input.channel), r.warnings)

NotEstimated(r) ==
    /\ r.reachPercent = Null
    /\ r.frequency = Null
    /\ ~r.reachPercentEstimated
    /\ Len(r.warnings) > 0

EstimateOnlyWithoutReachFrequency ==
    (ResolveDone /\ ~NoReachNoFrequency(args.input))
    => ~ret.value.reachPercentEstimated

C15_WitnessEstimated ==
    /\ ResolveDone
    /\ args.input.channel = "TV"
    /\ args.input.grps = R(300)
    /\ NoReachNoFrequency(args.input)
    /\ ret.value.reachPercentEstimated
    /\ RGt(ret.value.reachPercent, R(90)) /\ RLt(ret.value.reachPercent, Hundred)
    /\ ret.value.warnings = <<EstimatedWarning("TV")>>

C15_WitnessOtherChannel ==
    /\ ResolveDone
    /\ args.input.channel = "Digital"
    /\ args.input.grps = R(300)
    /\ NoReachNoFrequency(args.input)
    /\ NotEstimated(ret.value)
    /\ Has(ret.value.effective3Plus)

\* The reachPercent step 2 obtains from the inputs once GRPs is known: the
\* one supplied, else grps / frequency for a frequency > 0, else none.
ObtainedReach(input) ==
    IF Has(input.reachPercent) THEN input.reachPercent
    ELSE IF Has(input.frequency) /\ RGt(input.frequency, Zero)
    THEN RDiv(KnownGRPs(input), input.frequency)
    ELSE Null

ReachExceeds(input) ==
    /\ GRPsKnown(input)
    /\ RGe(KnownGRPs(input), Zero)
    /\ Has(ObtainedReach(input))
    /\ RGt(ObtainedReach(input), Hundred)

C16_WitnessSupplied ==
    /\ ResolveDone
    /\ args.input.grps = R(300)
    /\ args.input.reachPercent = R(150)
    /\ args.input.frequency = Null
    /\ ret.value.reachPercent = R(150)
    /\ ret.value.frequency = R(2)
    /\ ret.value.errors = <<ExceedsError>>

\* The GRPs >= 0 condition is needed: a supplied reachPercent above 100 beside
\* negative GRPs stops in averageFrequency, before the validation, so this
\* wider statement does not hold.
C16_ReachAboveHundredAnyGRPs ==
    (/\ ResolveDone
     /\ GRPsKnown(args.input)
     /\ Has(ObtainedReach(args.input))
     /\ RGt(ObtainedReach(args.input), Hundred))
    => InSeq(ExceedsError, ret.value.errors)

AllResolved(r) ==
    /\ Has(r.grps)
    /\ Has(r.reachPercent)
    /\ Has(r.frequency)
    /\ Has(r.effective3Plus)

\* C17: on every path isFullyResolved is TRUE exactly when grps, reachPercent,
\* frequency and effective3Plus are all non-null in the result.
C17_FullyResolvedIffAll ==
    ResolveDone => (ret.value.isFullyResolved <=> AllResolved(ret.value))

\* Fully resolved from 100 impressions on 200 people and a 25% reach; not
\* resolved, with three of the four present, when the frequency cannot be
\* derived.
C17_Witness ==
    /\ ResolveDone
    /\ args.input.grossImpressions = R(100)
    /\ args.input.grps = Null
    /\ args.input.reachPercent = R(25)
    /\ args.input.frequency = Null
    /\ args.input.audienceSize = R(200)
    /\ ret.value.isFullyResolved
    /\ ret.value.frequency = R(2)

C17_WitnessPartial ==
    /\ ResolveDone
    /\ args.input.channel = "Digital"
    /\ args.input.grps = R(300)
    /\ NoReachNoFrequency(args.input)
    /\ Has(ret.value.grps) /\ Has(ret.value.effective3Plus)
    /\ ret.value.reachPercent = Null
    /\ ~ret.value.isFullyResolved

\* An earlier step (cost + cpm, grossImpressions or direct grps) derived GRPs
\* and impressions, and the reach x frequency step then failed.
VolumeThenReachFrequencyFails(input) ==
    /\ AfterPathA(input).ctl = "run"
    /\ AfterPathA(input).grps # Null
    /\ AfterPathD(input).ctl = "throw"

\* C18 as stated: when GRPs and grossImpressions were derived by an earlier
\* step and the reach x frequency step fails (reachPercent outside [0,100] or
\* negative frequency), the result still carries those grps and
\* grossImpressions values, not null.
C18_VolumeKeptOnLaterFailure ==
    (ResolveDone /\ VolumeThenReachFrequencyFails(args.input))
    => /\ ret.value.grps = AfterPathA(args.input).grps
       /\ ret.value.grossImpressions = AfterPathA(args.input).grossImps

\* What the code does in that case: the error is recorded and both fields
\* are null, the locals never having been written to the result.
C18_VolumeLostOnLaterFailure ==
    (ResolveDone /\ VolumeThenReachFrequencyFails(args.input))
    => /\ Len(ret.value.errors) = 1
       /\ ret.value.grps = Null
       /\ ret.value.grossImpressions = Null

\* A failure after the volume was written to the result keeps it.
C18_AssignedVolumeKept ==
    (/\ ResolveDone
     /\ GRPsKnown(args.input)
     /\ TryBlock(args.input).ctl = "throw")
    => /\ ret.value.grps = KnownGRPs(args.input)
       /\ ret.value.grossImpressions = KnownImpressions(args.input)

NoViolation == ""

\* The first precondition a conversion of step 1 finds violated, read off the
\* inputs: of cost + cpm, else of grossImpressions, else of reach x frequency.
CostCPMViolation(input) ==
    IF ~HasCostCPM(input) THEN NoViolation
    ELSE IF RLe(input.cpm, Zero) THEN "CPM must be greater than 0"
    ELSE IF RLt(input.cost, Zero) THEN "Cost cannot be negative"
    ELSE IF RLe(input.audienceSize, Zero) THEN "Audience size must be greater than 0"
    ELSE NoViolation

ImpressionsViolation(input) ==
    IF input.grossImpressions = Null THEN NoViolation
    ELSE IF RLe(input.audienceSize, Zero) THEN "Audience size must be greater than 0"
    ELSE IF RLt(input.grossImpressions, Zero)
    THEN "Gross impressions cannot be negative"
    ELSE NoViolation

ReachFrequencyViolation(input) ==
    IF ~HasReachFrequency(input) THEN NoViolation
    ELSE IF RLt(input.reachPercent, Zero) \/ RGt(input.reachPercent, Hundred)
    THEN "Reach% must be between 0 and 100"
    ELSE IF RLt(input.frequency, Zero) THEN "Frequency cannot be negative"
    ELSE NoViolation

FirstViolation(input) ==
    IF CostCPMViolation(input) # NoViolation THEN CostCPMViolation(input)
    ELSE IF ImpressionsViolation(input) # NoViolation THEN ImpressionsViolation(input)
    ELSE ReachFrequencyViolation(input)

C19_WitnessLateFailure ==
    /\ ResolveDone
    /\ args.input.grps = R(-1)
    /\ args.input.audienceSize = R(0)
    /\ args.input.frequency = R(2)
    /\ args.input.reachPercent = Null
    /\ FirstViolation(args.input) = NoViolation
    /\ ret.value.errors = <<"GRPs cannot be negative">>
    /\ ~ret.value.isFullyResolved

\* C20 as stated: a result with a non-empty warnings list (conflicting GRPs
\* sources, estimated reach, reach and frequency undeterminable, reach only)
\* has an empty errors list.
C20_WarningsWithoutErrors ==
    (ResolveDone /\ SchemaAccepts(args.input))
    => (ret.value.warnings # <<>> => NoErrors(ret.value))

\* The same for inputs whose reachPercent, when supplied, is above 0: the
\* only schema-valid results with both a warning and an error come from a
\* reachPercent of 0.
C20_WarningsWithoutErrorsPositiveReach ==
    (/\ ResolveDone
     /\ SchemaAccepts(args.input)
     /\ Has(args.input.reachPercent) => RGt(args.input.reachPercent, Zero))
    => (ret.value.warnings # <<>> => NoErrors(ret.value))
-----------------------------------------------------------------------------
(* Properties of validateCombinableGroup.                                  *)

GroupDone == pc = "done" /\ op = "validateCombinableGroup"

SameAsFirst(tactics) ==
    \A i \in 1..Len(tactics) :
        /\ tactics[i].geoName = tactics[1].geoName
        /\ tactics[i].audienceSize = tactics[1].audienceSize

\* C21: validateCombinableGroup returns valid for 0 or 1 tactics; for 2 or
\* more it returns valid exactly when every tactic has the geoName and the
\* audienceSize of the first (audienceName is not compared); the verdict is
\* the same for every reordering of the tactics.
C21_ValidIffSameGeoAndSize ==
    GroupDone
    => LET tactics == args.tactics
       IN  /\ ~ret.threw
           /\ Len(tactics) < 2 => ret.value.valid
           /\ Len(tactics) >= 2 => (ret.value.valid <=> SameAsFirst(tactics))
           /\ \A p \in Reorderings(Len(tactics)) :
                 validateCombinableGroup(Reordered(tactics, p)).valid
                     = ret.value.valid

\* Three tactics of one geography and size under two audience names: valid.
C21_Witness ==
    /\ GroupDone
    /\ Len(args.tactics) = 3
    /\ SameAsFirst(args.tactics)
    /\ args.tactics[2].audienceName # args.tactics[1].audienceName
    /\ ret.value.valid

\* Only the last of three differs, in size: invalid.
C21_WitnessInvalid ==
    /\ GroupDone
    /\ Len(args.tactics) = 3
    /\ args.tactics[2] = [args.tactics[1] EXCEPT !.tacticName = "Radio"]
    /\ args.tactics[3].geoName = args.tactics[1].geoName
    /\ args.tactics[3].audienceSize # args.tactics[1].audienceSize
    /\ ~ret.value.valid

\* The lowest index whose tactic differs from the first in the field, 0 when
\* none does.
LowestDifferent(tactics, Field(_)) ==
    LET differs == {i \in 1..Len(tactics) : Field(tactics[i]) # Field(tactics[1])}
    IN  IF differs = {} THEN 0
        ELSE CHOOSE i \in differs : \A j \in differs : i <= j

GeoOf(t) == t.geoName
SizeOf(t) == t.audienceSize

\* C22: an invalid verdict reports one pair.  If some tactic's geoName differs
\* from the first tactic's, the error is the geography error naming the first
\* tactic and the lowest-index tactic of another geoName, whatever the
\* audience sizes; the audience-size error, naming the first tactic, the
\* lowest-index tactic of another audienceSize and both sizes, is reported
\* only when all geographies match.
C22_GeographyBeforeAudienceSize ==
    (GroupDone /\ ~ret.value.valid)
    => LET tactics == args.tactics
           g == LowestDifferent(tactics, GeoOf)
           a == LowestDifferent(tactics, SizeOf)
           e == ret.value.error
       IN  IF g # 0
           THEN /\ e.about = "different geographies"
                /\ e.firstTactic = tactics[1].tacticName
                /\ e.firstValue = tactics[1].geoName
                /\ e.otherTactic = tactics[g].tacticName
                /\ e.otherValue = tactics[g].geoName
           ELSE /\ a # 0
                /\ e.about = "different audience sizes"
                /\ e.firstTactic = tactics[1].tacticName
                /\ e.firstValue = tactics[1].audienceSize
                /\ e.otherTactic = tactics[a].tacticName
                /\ e.otherValue = tactics[a].audienceSize

\* The second tactic differs in size only, the third in geography: the
\* geography error names the third.
C22_Witness ==
    /\ GroupDone
    /\ Len(args.tactics) = 3
    /\ args.tactics[2].geoName = args.tactics[1].geoName
    /\ args.tactics[2].audienceSize # args.tactics[1].audienceSize
    /\ args.tactics[3].geoName # args.tactics[1].geoName
    /\ ~ret.value.valid
    /\ ret.value.error.about = "different geographies"
    /\ ret.value.error.otherTactic = "Digital"

\* All of one geography, the second and third of another size: the
\* audience-size error names the second.
C22_WitnessAudienceSize ==
    /\ GroupDone
    /\ Len(args.tactics) = 3
    /\ LowestDifferent(args.tactics, GeoOf) = 0
    /\ args.tactics[2].audienceSize = R(125)
    /\ args.tactics[3].audienceSize = R(125)
    /\ args.tactics[1].audienceSize = R(100)
    /\ ret.value.error.about = "different audience sizes"
    /\ ret.value.error.otherTactic = "Radio"
    /\ ret.value.error.otherValue = R(125)
-----------------------------------------------------------------------------
(* Properties of the row status.                                           *)

AnalyzeDone == pc = "done" /\ op = "analyzeRowInputs"

\* The field's trimmed text is a number >= 0 (above 0 for the CPM).
CountsAsPresent(text, strictlyPositive) ==
    LET n == NumberOf(Trim(text))
    IN  /\ Trim(text) # ""
        /\ n # NaN
        /\ IF strictlyPositive THEN RGt(n, Zero) ELSE RGe(n, Zero)

GRPsIn(form) == CountsAsPresent(form.grps, FALSE)
ImpressionsIn(form) == CountsAsPresent(form.grossImpressions, FALSE)
CostIn(form) == CountsAsPresent(form.cost, FALSE)
CPMIn(form) == CountsAsPresent(form.cpm, TRUE)
ReachIn(form) == CountsAsPresent(form.reachPercent, FALSE)
FrequencyIn(form) == CountsAsPresent(form.frequency, FALSE)

VolumeIn(form) == GRPsIn(form) \/ ImpressionsIn(form) \/ (CostIn(form) /\ CPMIn(form))

ShouldBeReady(form) ==
    \/ ReachIn(form) /\ FrequencyIn(form)
    \/ VolumeIn(form) /\ (ReachIn(form) \/ FrequencyIn(form))
    \/ VolumeIn(form) /\ ~ReachIn(form) /\ ~FrequencyIn(form) /\ form.channel = "TV"

ShouldBePartial(form) ==
    /\ ~ShouldBeReady(form)
    /\ VolumeIn(form) \/ (ReachIn(form) /\ ~FrequencyIn(form))

NothingIn(form) ==
    /\ ~GRPsIn(form) /\ ~ImpressionsIn(form) /\ ~CostIn(form)
    /\ ~CPMIn(form) /\ ~ReachIn(form) /\ ~FrequencyIn(form)

\* C26: analyzeRowInputs gives each form one status: "ready" exactly when
\* reachPercent and frequency are present, or a volume and one of them, or a
\* volume alone on channel "TV"; "partial" exactly when not ready and a volume
\* is present or reachPercent without frequency; "insufficient" otherwise.
\* hasStartedInput is FALSE exactly when no field is present.
C26_RowStatus ==
    AnalyzeDone
    => LET form == args.form
           status == ret.value.overallStatus
       IN  /\ status \in {"ready", "partial", "insufficient"}
           /\ status = "ready" <=> ShouldBeReady(form)
           /\ status = "partial" <=> ShouldBePartial(form)
           /\ status = "insufficient"
                  <=> (~ShouldBeReady(form) /\ ~ShouldBePartial(form))
           /\ ret.value.hasStartedInput <=> ~NothingIn(form)

\* A cost with a CPM of 0, beside unparsable GRPs and a negative reach: only
\* the cost counts, so the row is started and insufficient.
C26_Witness ==
    /\ AnalyzeDone
    /\ args.form.cost = "1" /\ args.form.cpm = "0"
    /\ args.form.grps = "abc" /\ args.form.reachPercent = "-5"
    /\ args.form.grossImpressions = "" /\ args.form.frequency = ""
    /\ ret.value.overallStatus = "insufficient"
    /\ ret.value.hasStartedInput
    /\ ret.value.activeGroups = <<"volume_costcpm">>

\* Padded CPM text with a cost on "TV": ready; blank GRPs text counts as
\* nothing.
C26_WitnessReadyTV ==
    /\ AnalyzeDone
    /\ args.form.channel = "TV"
    /\ args.form.cost = "1" /\ args.form.cpm = " 10 "
    /\ args.form.grps = " " /\ args.form.reachPercent = ""
    /\ args.form.grossImpressions = "" /\ args.form.frequency = ""
    /\ ret.value.overallStatus = "ready"

C26_WitnessPartial ==
    /\ AnalyzeDone
    /\ args.form.reachPercent = "150"
    /\ ~VolumeIn(args.form) /\ ~FrequencyIn(args.form)
    /\ ret.value.overallStatus = "partial"
-----------------------------------------------------------------------------
(* Properties of Calculate.                                                *)

HandleDone == pc = "done" /\ op = "handleCalculate"

AllRowsPass(tactics) ==
    \A i \in 1..Len(tactics) : tacticInputSchema(parseFormToInput(tactics[i]))

\* C23 as stated: for rows that all pass the schema and a selection of two or
\* more of them, Calculate completes, raising nothing, and ends with a plan
\* summary or a plan error.
C23_CalculateNeverRaises ==
    (/\ HandleDone
     /\ AllRowsPass(args.tactics)
     /\ Cardinality(args.selectedIds) >= 2)
    => /\ ~ret.threw
       /\ ret.value.planSummary # Null \/ ret.value.planError # Null

\* Every selected row resolved without an error.
SelectedResolveCleanly(tactics, selectedIds) ==
    \A i \in 1..Len(tactics) :
        tactics[i].id \in selectedIds
        => resolveTactic(ResolverInput(parseFormToInput(tactics[i]))).errors = <<>>

\* The same when no selected tactic's resolution reported an error.
C23_CalculateCleanSelection ==
    (/\ HandleDone
     /\ AllRowsPass(args.tactics)
     /\ Cardinality(args.selectedIds) >= 2
     /\ SelectedResolveCleanly(args.tactics, args.selectedIds))
    => /\ ~ret.threw
       /\ ret.value.planSummary # Null \/ ret.value.planError # Null
-----------------------------------------------------------------------------
(* Purity of resolveTactic.                                                *)

TwiceDone == pc = "done" /\ op = "resolveTwice"

-----------------------------------------------------------------------------
(* Properties of effectiveReach3Plus.                                      *)

EffectiveDone == pc = "done" /\ op = "effectiveReach3Plus"

Clamp01(x) == RMax(Zero, RMin(R(1), x))

\* The fields of a result follow the Poisson formulas for the GRPs.
PoissonFields(e, grps) ==
    /\ e.lambda = RDiv(grps, Hundred)
    /\ e.p1 = RMul(e.lambda, e.p0)
    /\ e.p2 = RMul(RDiv(RMul(e.lambda, e.lambda), R(2)), e.p0)
    /\ e.p3plus = Clamp01(RSub(R(1), RAdd(e.p0, RAdd(e.p1, e.p2))))
    /\ e.effective3PlusPercent = RMul(Hundred, e.p3plus)

PercentAt(grps) == effectiveReach3Plus(grps).value.effective3PlusPercent

LargerGRPs(grps) == {g \in EffectiveGRPs : RGt(g, grps)}

C25_WitnessIncreasing ==
    /\ EffectiveDone
    /\ args.grps = R(300)
    /\ RLt(PercentAt(R(100)), ret.value.effective3PlusPercent)
    /\ RLt(ret.value.effective3PlusPercent, PercentAt(R(1000)))
    /\ RLt(PercentAt(R(1000)), Hundred)
-----------------------------------------------------------------------------
(* The row status against the resolver.                                    *)

\* The page's form for the six fields and channel given to analyzeRowInputs.
FormOfRow(form) ==
    [id |-> "row1",
     tacticName |-> "TV",
     geoName |-> BlankForm.geoName,
     audienceName |-> BlankForm.audienceName,
     audienceSize |-> BlankForm.audienceSize,
     channel |-> form.channel,
     grps |-> form.grps,
     grossImpressions |-> form.grossImpressions,
     cost |-> form.cost,
     cpm |-> form.cpm,
     reachPercent |-> form.reachPercent,
     frequency |-> form.frequency]

ParsedRow(form) == parseFormToInput(FormOfRow(form))
ResolvedRow(form) == resolveTactic(ResolverInput(ParsedRow(form)))

\* C27 as stated: for a form whose fields parse to values the schema accepts,
\* status "ready" means resolveTactic on those values returns
\* isFullyResolved = TRUE, and status "insufficient" means it returns the
\* insufficient-input error.
C27_StatusMirrorsResolver ==
    (AnalyzeDone /\ tacticInputSchema(ParsedRow(args.form)))
    => /\ ret.value.overallStatus = "ready"
              => ResolvedRow(args.form).isFullyResolved
       /\ ret.value.overallStatus = "insufficient"
              => InSeq(InsufficientError, ResolvedRow(args.form).errors)

\* The ways a ready row is not fully resolved, read off the texts: a reach of
\* 0, a frequency of 0 without reach, a reach computed above 100, or a TV row
\* with a volume of 0.
ReadyButUnresolvable(form) ==
    LET input == ParsedRow(form)
        r == ResolvedRow(form)
    IN  \/ input.reachPercent = Zero
        \/ input.reachPercent = Null /\ input.frequency = Zero
        \/ r.reachPercent # Null /\ RGt(r.reachPercent, Hundred)
        \/ r.grps = Zero /\ input.reachPercent = Null /\ input.frequency = Null

\* Outside those cases, and with no blank text, the status does mirror the
\* resolver.
C27_StatusMirrorsResolverElsewhere ==
    (/\ AnalyzeDone
     /\ tacticInputSchema(ParsedRow(args.form))
     /\ ~ReadyButUnresolvable(args.form)
     /\ args.form.grps # " " /\ args.form.reachPercent # " ")
    => /\ ret.value.overallStatus = "ready"
              => ResolvedRow(args.form).isFullyResolved
       /\ ret.value.overallStatus = "insufficient"
              => InSeq(InsufficientError, ResolvedRow(args.form).errors)
-----------------------------------------------------------------------------
(* Invariants of a resolved tactic.                                        *)

ReachInRange(r) ==
    r.reachPercent # Null
    => RGe(r.reachPercent, Zero) /\ RLe(r.reachPercent, Hundred)

ReachNumInRange(r) ==
    r.reachNum # Null
    => RGe(r.reachNum, Zero) /\ RLe(r.reachNum, r.audienceSize)

\* C28 as stated: for every input, schema-valid or not, a result with no
\* errors has reachPercent null or in [0,100] and reachNum null or in
\* [0, audienceSize].
C28_NoErrorMeansReachInRange ==
    (ResolveDone /\ NoErrors(ret.value))
    => ReachInRange(ret.value) /\ ReachNumInRange(ret.value)

ReachOnly(input) ==
    Has(input.reachPercent) /\ input.frequency = Null /\ NoVolumeSource(input)

\* The same off the reach-only path, the one path that echoes reachPercent
\* without any validation.
C28_NoErrorMeansReachInRangeOffPathE ==
    (ResolveDone /\ NoErrors(ret.value) /\ ~ReachOnly(args.input))
    => ReachInRange(ret.value) /\ ReachNumInRange(ret.value)

\* C29: a result with isFullyResolved = TRUE has no errors, grps >= 0,
\* 0 <= reachPercent <= 100, frequency >= 0, reachNum and effective3Plus
\* non-null, and grps = reachPercent x frequency.
C29_FullyResolvedConsistent ==
    (ResolveDone /\ ret.value.isFullyResolved)
    => LET r == ret.value
       IN  /\ NoErrors(r)
           /\ Has(r.grps) /\ RGe(r.grps, Zero)
           /\ Has(r.reachPercent)
           /\ RGe(r.reachPercent, Zero) /\ RLe(r.reachPercent, Hundred)
           /\ Has(r.frequency) /\ RGe(r.frequency, Zero)
           /\ Has(r.reachNum)
           /\ Has(r.effective3Plus)
           /\ r.grps = RMul(r.reachPercent, r.frequency)

\* 400 impressions on 200 people at a frequency of 2: 200 GRPs, 100% reach.
C29_Witness ==
    /\ ResolveDone
    /\ args.input.grossImpressions = R(400)
    /\ args.input.audienceSize = R(200)
    /\ args.input.grps = Null
    /\ args.input.frequency = R(2)
    /\ args.input.reachPercent = Null
    /\ ret.value.isFullyResolved
    /\ ret.value.grps = R(200)
    /\ ret.value.reachPercent = Hundred
    /\ ret.value.reachNum = R(200)

\* Fully resolved by the TV estimate.
C29_WitnessEstimated ==
    /\ ResolveDone
    /\ args.input.channel = "TV"
    /\ args.input.grps = R(300)
    /\ NoReachNoFrequency(args.input)
    /\ ret.value.isFullyResolved
    /\ ret.value.reachPercentEstimated

SameVolume(r) ==
    r.grossImpressions = RMul(RDiv(r.grps, Hundred), r.audienceSize)

\* C30 as stated: a result with grps and grossImpressions both non-null has
\* grossImpressions = (grps / 100) x audienceSize, whatever inputs were
\* supplied together.
C30_ImpressionsMatchGRPs ==
    (ResolveDone /\ Has(ret.value.grps) /\ Has(ret.value.grossImpressions))
    => SameVolume(ret.value)

\* GRPs supplied directly, without reach x frequency, beside impressions
\* (supplied, or from cost + cpm) that are not 0.
DirectGRPsBesideImpressions(input) ==
    /\ Has(input.grps)
    /\ ~HasReachFrequency(input)
    /\ AfterPathB(input).ctl = "run"
    /\ ~NotSet(AfterPathB(input).grossImps)

\* C30 amended: the two describe the same volume unless GRPs was supplied
\* directly beside non-zero impressions from grossImpressions or cost + cpm
\* and no reach x frequency pair replaced both; in that case the result
\* keeps the supplied GRPs and the earlier impressions as they are.
C30_ImpressionsMatchGRPsUnlessBothSupplied ==
    (ResolveDone /\ Has(ret.value.grps) /\ Has(ret.value.grossImpressions))
    => IF DirectGRPsBesideImpressions(args.input)
       THEN /\ ret.value.grps = args.input.grps
            /\ ret.value.grossImpressions = AfterPathB(args.input).grossImps
       ELSE SameVolume(ret.value)

\* 50 GRPs beside 400 impressions on 200 people: both kept, 400 against the
\* 100 the GRPs stand for.
C30_Witness ==
    /\ ResolveDone
    /\ SchemaAccepts(args.input)
    /\ args.input.grps = R(50)
    /\ args.input.grossImpressions = R(400)
    /\ args.input.audienceSize = R(200)
    /\ ~HasReachFrequency(args.input)
    /\ ret.value.grps = R(50)
    /\ ret.value.grossImpressions = R(400)

\* The same inputs with 25% x 2 as well: path D replaces both, by 50 GRPs
\* and 100 impressions.
C30_WitnessReplaced ==
    /\ ResolveDone
    /\ args.input.grps = R(300)
    /\ args.input.grossImpressions = R(400)
    /\ args.input.audienceSize = R(200)
    /\ args.input.reachPercent = R(25) /\ args.input.frequency = R(2)
    /\ ret.value.grps = R(50)
    /\ ret.value.grossImpressions = R(100)

\* C28 holds on every input the form schema lets through.
C28_NoErrorMeansReachInRangeSchemaValid ==
    (ResolveDone /\ NoErrors(ret.value) /\ SchemaAccepts(args.input))
    => ReachInRange(ret.value) /\ ReachNumInRange(ret.value)

====
